---- MODULE Spec2Model ----
(***************************************************************************)
(* Pathly: the place-search pipeline of src/src/fsgm.py.                   *)
(*                                                                         *)
(* Python values are modelled as tagged records [t, v]: None is            *)
(* [t |-> "none"], a str is [t |-> "str", v |-> <<characters>>], so that   *)
(* truthiness, split, strip, replace and join are computed on the          *)
(* characters as Python computes them.  A dict is a function whose DOMAIN  *)
(* is its key set.                                                         *)
(***************************************************************************)
EXTENDS Integers, Sequences, FiniteSets, TLC

VARIABLES
    pc,            \* position of the request inside search_places_api
    query,         \* search_places_api: the user's query text
    location_data, \* search_places_api: the location sent by the frontend
    ctx,           \* the context built by create_context_from_location
    llm,           \* what the planner's LLM call in progress did
    fs_params,     \* run_fs: the dict returned by generate_fs_params
    fs_data,       \* search_foursquare: the places of the provider's answer
    ids,           \* run_fs: the identifiers returned by search_foursquare
    details,       \* run_fs: the records collected so far
    fs_out,        \* the value returned by run_fs
    params,        \* run_gm: the dict returned by generate_serp_params
    base_params,   \* fetch_local_results: its private copy of params
    requests,      \* every request sent by fetch_local_results, with its outcome
    payload,       \* the value returned by fetch_local_results
    results,       \* run_gm: the normalized records
    idx,           \* run_gm: the position in results of the record being enriched
    id_param,      \* fetch_reviews: the identifier parameter of the review request
    review_log,    \* the requests of the fetch_reviews call last started, with
                   \* what each one gave
    gm_out,        \* the value returned by run_gm
    result,        \* the value returned by search_places_api
    ranking,       \* the value returned by rank_places_api
    calls,         \* every outbound call of the request, in order
    endpoint,      \* the route of the HTTP request, "" for a direct call
    request_json,  \* request.json of the HTTP request
    response,      \* the HTTP response of the endpoint
    cache,         \* the text of CACHE_FILE, or NoFile
    proc,          \* save_location_cache in progress in each server thread
    cache_log      \* the cache operations that returned, in order

reqVars == <<query, location_data>>
apiVars == <<endpoint, request_json, response>>
cacheVars == <<cache, proc, cache_log>>
fsVars == <<fs_params, fs_data, ids, details, fs_out>>
gmVars == <<results, idx, id_param, review_log, gm_out>>
vars == <<pc, query, location_data, ctx, llm, fs_params, fs_data, ids, details, fs_out, params,
          base_params, requests, payload, results, idx, id_param, review_log, gm_out,
          result, ranking, calls, endpoint, request_json, response, cache, proc, cache_log>>

----------------------------------------------------------------------------
(* Bounds of the model *)

\* longest ranked_places list in the ranking LLM's answer; its rank values
\* go from 0 to one above this
MaxRanked == 2

\* longest location string handed to fetch_local_results
MaxLocLen == 4

\* largest number of items in one local_results list of the provider
MaxRaw == 2

\* largest number of places in the directory's search results
MaxPlaces == 7

\* largest number of items in a long local_results list of the provider
MaxLong == 8

\* largest number of reviews in one answer of the review listing
MaxReviewItems == 4

\* largest number of calls of save_location_cache and get_location_cache
MaxCacheOps == 3

\* largest number of pieces of a location with the phrase given to
\* fetch_local_results on its own
MaxLadderPieces == 2

\* largest number of pieces of a location given to run_gm's simplification
MaxPieces == 4

----------------------------------------------------------------------------
(* Python values *)

None == [t |-> "none", v |-> <<>>]

Str(s) == [t |-> "str", v |-> s]

Num(n) == [t |-> "num", v |-> n]

\* a list, of which only the length matters here
List(n) == [t |-> "list", v |-> n]

\* a dict: f is a function from its keys to their values
Dict(f) == [t |-> "dict", v |-> f]

\* {}
EmptyDict == Dict(<<>>)

\* CACHE_FILE does not exist
NoFile == [t |-> "nofile", v |-> <<>>]

\* the threads of the server that work on the location cache
Procs == {1, 2}

\* a thread that is not inside save_location_cache
Idle == [pc |-> "idle", doc |-> <<>>]

\* search_places_api or rank_places_api called directly, with no HTTP request
\* and no location cache yet
DirectCall ==
    /\ endpoint = ""
    /\ request_json = None
    /\ response = <<>>
    /\ cache = NoFile
    /\ proc = [p \in Procs |-> Idle]
    /\ cache_log = <<>>

\* bool(x)
Truthy(x) ==
    CASE x.t = "none" -> FALSE
      [] x.t = "str" -> x.v # <<>>
      [] x.t = "num" -> x.v # 0
      [] x.t = "list" -> x.v # 0
      [] x.t = "dict" -> DOMAIN x.v # {}

\* d.get(k)
Get(d, k) == IF k \in DOMAIN d THEN d[k] ELSE None

\* dict(d) with d[k] = x
DictSet(d, k, x) == [j \in DOMAIN d \cup {k} |-> IF j = k THEN x ELSE d[j]]

\* d.pop(k, None)
DictPop(d, k) == [j \in DOMAIN d \ {k} |-> d[j]]

\* the characters location strings are built from
LocChars == {"a", ",", " "}

StringsUpTo(n) == UNION {[1..k -> LocChars] : k \in 0..n}

----------------------------------------------------------------------------
(* str methods, on sequences of characters *)

RECURSIVE LStrip(_)
LStrip(s) == IF s # <<>> /\ Head(s) = " " THEN LStrip(Tail(s)) ELSE s

RECURSIVE RStrip(_)
RStrip(s) ==
    IF s # <<>> /\ s[Len(s)] = " " THEN RStrip(SubSeq(s, 1, Len(s) - 1)) ELSE s

\* s.strip()
Strip(s) == RStrip(LStrip(s))

\* the position of the first sep in s, 0 when there is none
RECURSIVE FindFrom(_, _, _)
FindFrom(s, sep, i) ==
    IF i > Len(s) THEN 0
    ELSE IF s[i] = sep THEN i
    ELSE FindFrom(s, sep, i + 1)

\* s.split(sep): always at least one segment
RECURSIVE Split(_, _)
Split(s, sep) ==
    LET i == FindFrom(s, sep, 1) IN
    IF i = 0 THEN <<s>>
    ELSE <<SubSeq(s, 1, i - 1)>> \o Split(SubSeq(s, i + 1, Len(s)), sep)

\* s.replace(pat, ""): leftmost non-overlapping occurrences
RECURSIVE RemoveAll(_, _)
RemoveAll(s, pat) ==
    IF Len(s) < Len(pat) THEN s
    ELSE IF SubSeq(s, 1, Len(pat)) = pat
         THEN RemoveAll(SubSeq(s, Len(pat) + 1, Len(s)), pat)
         ELSE <<Head(s)>> \o RemoveAll(Tail(s), pat)

\* sep.join(segs)
RECURSIVE Join(_, _)
Join(segs, sep) ==
    IF segs = <<>> THEN <<>>
    ELSE IF Len(segs) = 1 THEN segs[1]
    ELSE segs[1] \o sep \o Join(Tail(segs), sep)

\* [f(x) for x in segs]
RECURSIVE MapSeq(_, _)
MapSeq(F(_), segs) ==
    IF segs = <<>> THEN <<>> ELSE <<F(Head(segs))>> \o MapSeq(F, Tail(segs))

\* [x for x in segs if x]
RECURSIVE NonEmpty(_)
NonEmpty(segs) ==
    IF segs = <<>> THEN <<>>
    ELSE IF Head(segs) = <<>> THEN NonEmpty(Tail(segs))
    ELSE <<Head(segs)>> \o NonEmpty(Tail(segs))

\* segs[:n]
Take(segs, n) == SubSeq(segs, 1, IF Len(segs) < n THEN Len(segs) ELSE n)

----------------------------------------------------------------------------
(* _simplify_location *)

\* "Municipal Corporation", written with M for Municipal and C for Corporation
MunicipalCorporation == <<"M", " ", "C">>

DropPhrase(p) == Strip(RemoveAll(p, MunicipalCorporation))

_simplify_location(loc) ==
    IF ~Truthy(loc) THEN loc
    ELSE LET parts == NonEmpty(MapSeq(Strip, Split(loc.v, ",")))
             cleaned == NonEmpty(MapSeq(DropPhrase, parts))
             simplified == Join(Take(cleaned, 2), <<",", " ">>)
         IN  IF parts = <<>> THEN loc
             ELSE IF simplified # <<>> THEN Str(simplified) ELSE loc

\* the pieces location strings with the phrase are built from: the three
\* characters, the phrase, and its two halves
LocPieces == {<<"a">>, <<",">>, <<" ">>, MunicipalCorporation, <<"M">>, <<" ", "C">>}

\* the strings of up to n pieces
RECURSIVE PieceStrings(_)
PieceStrings(n) ==
    IF n = 0 THEN {<<>>}
    ELSE LET shorter == PieceStrings(n - 1)
         IN  shorter \cup {t \o piece : t \in shorter, piece \in LocPieces}

----------------------------------------------------------------------------
(* The web-local provider, as fetch_local_results sees it *)

\* i in unary, to tell identifiers apart
RECURSIVE Ones(_)
Ones(i) == IF i = 0 THEN <<>> ELSE <<"1">> \o Ones(i - 1)

\* the raw items the provider lists, of four kinds in turn: one with no
\* identifier and no coordinates, one with a data_id and a place_id, one with
\* a place_id only and a latitude given as a string, and one with no
\* identifier, no title and no address
RawItem(i) ==
    LET item ==
            [title |-> IF i % 4 = 0 THEN None ELSE Str(<<"p">> \o Ones(i)),
             address |-> IF i % 4 = 0 THEN None ELSE Str(<<"s">> \o Ones(i)),
             data_id |-> IF i % 4 = 2 THEN Str(<<"0", "x">> \o Ones(i)) ELSE None,
             place_id |-> IF i % 4 \in {2, 3} THEN Str(<<"C", "h">> \o Ones(i)) ELSE None,
             ludocid |-> None]
    IN  IF i % 4 = 1 THEN item
        ELSE DictSet(item, "gps_coordinates",
                     [latitude |-> IF i % 4 = 3 THEN Str(<<"3">>) ELSE Num(i),
                      longitude |-> Num(i)])

\* a local_results list: m items, from the s-th on
RawItems(s0, m) == [i \in 1..m |-> RawItem(s0 + i - 1)]

\* a long local_results list: m items of the fourth kind, for which
\* fetch_reviews sends no request
LongResults(m) == [j \in 1..m |-> RawItem(4 * j)]

LocalResults ==
    {RawItems(s0, m) : s0 \in 1..4, m \in 0..MaxRaw}
        \cup {LongResults(m) : m \in 7..MaxLong}

\* the JSON bodies of a 2xx response: {}, one without local_results, and
\* those with a local_results list
Bodies ==
    {EmptyDict, Dict([search_metadata |-> Str(<<"o", "k">>)])}
        \cup {Dict([search_metadata |-> Str(<<"o", "k">>), local_results |-> lr]) :
                 lr \in LocalResults}

\* what one requests.get(SEARCH_ENDPOINT) followed by r.json() can do
FailureKinds == {"timeout", "connection_error", "http_400", "http_500", "unreadable_body"}

Outcomes ==
    {[kind |-> k, body |-> None] : k \in FailureKinds}
        \cup {[kind |-> "ok", body |-> b] : b \in Bodies}

----------------------------------------------------------------------------
(* fetch_local_results *)

\* an _attempt without raise_for_status: the error document of a 4xx or 5xx
\* response is taken for the payload
_attempt_NoRaiseForStatus(o) ==
    IF o.kind = "ok" THEN o.body
    ELSE IF o.kind \in {"http_400", "http_500"} THEN Dict([error |-> Str(<<"e">>)])
    ELSE None

\* _attempt: the payload of a 2xx response with a JSON body, None otherwise
_attempt(o) == IF o.kind = "ok" THEN o.body ELSE None

\* `if payload: return payload`
GotPayload(ret) == Truthy(ret)

\* loc.split(",")[-1].strip(): the last segment in place of the first
Aggressive_LastSegment(loc) == Str(Strip(Split(loc.v, ",")[Len(Split(loc.v, ","))]))

\* loc.split(",")[0].strip()
Aggressive(loc) == Str(Strip(Split(loc.v, ",")[1]))

\* the pre-simplification of the private copy
PreSimplify(p) ==
    IF Truthy(Get(p, "location")) /\ _simplify_location(p["location"]) # p["location"]
    THEN DictSet(p, "location", _simplify_location(p["location"]))
    ELSE p

\* where the ladder goes after a failed initial attempt
AfterInitial(bp) ==
    IF Truthy(Get(bp, "location"))
    THEN IF Truthy(Aggressive(bp["location"])) /\ Aggressive(bp["location"]) # bp["location"]
         THEN "aggressive_location"
         ELSE "no_location"
    ELSE "returned"

\* a ladder that repeats the aggressive attempt for as long as it fails
AfterAggressive_Again(bp) == "aggressive_location"

\* where the ladder goes after a failed aggressive attempt
AfterAggressive(bp) == IF Truthy(Get(bp, "location")) THEN "no_location" ELSE "returned"

\* a ladder that starts over after a failed no-location attempt
AfterNoLocation_StartsOver(bp) == "initial"

\* where the ladder goes after a failed no-location attempt
AfterNoLocation(bp) == "returned"

\* one ladder step: the request with parameters p, then either the return of
\* its payload or the move to the next rung (the empty payload after the last)
Rung(tag, p, next) ==
    \E o \in Outcomes :
        /\ requests' = Append(requests, [tag |-> tag, p |-> p, outcome |-> o])
        /\ IF GotPayload(_attempt(o))
           THEN pc' = "returned" /\ payload' = _attempt(o)
           ELSE pc' = next /\ payload' = IF next = "returned" THEN EmptyDict ELSE payload
        /\ calls' = Append(calls, "serp_local")
        /\ UNCHANGED <<reqVars, apiVars, cacheVars, ranking, ctx, llm, fsVars, params, base_params, gmVars, result>>

\* a fetch_local_results that works on the caller's object (base_params =
\* params): the pre-simplified location is written into it
CallerParams_Shared(p) == PreSimplify(p)

\* the caller's object after the first statements of fetch_local_results:
\* base_params = dict(params) is a copy, what is written into it stays there
CallerParams(p) == p

FetchLocalEnter ==
    /\ pc = "fetch_local_results"
    /\ base_params' = PreSimplify(params)
    /\ params' = CallerParams(params)
    /\ pc' = "initial"
    /\ UNCHANGED <<reqVars, apiVars, cacheVars, ranking, ctx, llm, fsVars, requests, payload, gmVars, result, calls>>

AttemptInitial ==
    /\ pc = "initial"
    /\ Rung("initial", base_params, AfterInitial(base_params))

AttemptAggressive ==
    /\ pc = "aggressive_location"
    /\ Rung("aggressive_location",
            DictSet(base_params, "location", Aggressive(base_params["location"])),
            AfterAggressive(base_params))

AttemptNoLocation ==
    /\ pc = "no_location"
    /\ Rung("no_location", DictPop(base_params, "location"), AfterNoLocation(base_params))

----------------------------------------------------------------------------
(* search_places_api: the exception handler, and the context *)

\* a handler that returns what the providers had delivered so far
Failure_KeepsPartial(where, e) ==
    [success |-> FALSE, error |-> <<where, e>>, data |-> [partial |-> TRUE]]

\* `except Exception as e: return {"success": False, "error": str(e), "data": None}`
\* (the error names the function that raised and the exception)
Failure(where, e) == [success |-> FALSE, error |-> <<where, e>>, data |-> None]

\* a handler inside run_fs that swallows the exception and lets run_gm start
Fail_GoesOn(where, e) ==
    /\ pc' = "generate_serp_params"
    /\ result' = result

\* an exception raised in `where` leaves search_places_api through its handler
Fail(where, e) ==
    /\ pc' = "done"
    /\ result' = Failure(where, e)

\* DEFAULT_LATITUDE and DEFAULT_LONGITUDE, in whole degrees
DEFAULT_LATITUDE == 28
DEFAULT_LONGITUDE == 77

\* f"{lat},{lon}"
FormatLl(lat, lon) == Str(<<lat, ",", lon>>)

DEFAULT_LL == FormatLl(DEFAULT_LATITUDE, DEFAULT_LONGITUDE)

\* isinstance(x, (int, float))
IsNumber(x) == x.t = "num"

\* the locations a request carries: numbers, nothing, and numeric strings
LocationInputs ==
    {[latitude |-> Num(12), longitude |-> Num(34)],
     [latitude |-> None, longitude |-> None],
     [latitude |-> Str(<<"1", "2">>), longitude |-> Str(<<"3", "4">>)]}

\* what _reverse_geocode returns: None on any failure, a place label otherwise
GeoLabels ==
    {None, Str(<<"a", ",", " ", "a">>), Str(<<"a", ",", "a", ",", "a">>)}

create_context_from_location(loc, label) ==
    LET lat == Get(loc, "latitude")
        lon == Get(loc, "longitude")
        numeric == IsNumber(lat) /\ IsNumber(lon)
    IN  [latitude |-> lat,
         longitude |-> lon,
         ll |-> IF numeric THEN FormatLl(lat.v, lon.v) ELSE DEFAULT_LL,
         text_location |-> IF numeric THEN label ELSE None]

CreateContext ==
    /\ pc = "create_context_from_location"
    /\ \E label \in GeoLabels :
        /\ ctx' = create_context_from_location(location_data, label)
        /\ calls' = IF IsNumber(Get(location_data, "latitude"))
                       /\ IsNumber(Get(location_data, "longitude"))
                    THEN Append(calls, "nominatim")
                    ELSE calls
    /\ pc' = "generate_fs_params"
    /\ UNCHANGED <<reqVars, apiVars, cacheVars, ranking, llm, fsVars, params, base_params, requests, payload, gmVars,
                   result>>

----------------------------------------------------------------------------
(* The planner's LLM call *)

\* the call raises, or returns a message without text, or returns text
LlmFailures == {[kind |-> "exception"], [kind |-> "timeout"], [kind |-> "no_content"]}

\* a text that is no JSON document
NotJson == [t |-> "garbage", v |-> <<>>]

\* json.loads(content): JSONDecodeError for a text that is no JSON document,
\* the document's value otherwise
JsonDecodeError(content) == content = NotJson

\* the JSON documents that are no object: null, a list, a string, a number
NonObjects == {None, List(0), List(1), Str(<<"x">>), Num(7)}

\* a key the document does not carry
Absent == [t |-> "absent", v |-> <<>>]

\* the JSON object with the given members, those marked Absent left out
Document(members) ==
    Dict([k \in {j \in DOMAIN members : members[j] # Absent} |-> members[k]])

----------------------------------------------------------------------------
(* generate_fs_params *)

\* the values of "limit", "ll" and "near" in the planner's output
FsLimits ==
    {Absent, None, Num(0), Num(-3), Num(1), Num(5), Num(6), Num(50), Str(<<"3">>), Str(<<>>)}

FsLls == {Absent, None, Str(<<>>), FormatLl(1, 2)}

FsNears == {Absent, None, Str(<<>>), Str(<<"a">>)}

FsDocuments ==
    {Document([query |-> Str(<<"q">>), limit |-> l, ll |-> c, near |-> n]) :
        l \in FsLimits, c \in FsLls, n \in FsNears}

\* what the LLM call of generate_fs_params can do
FsLlmOutcomes ==
    LlmFailures
        \cup {[kind |-> "text", content |-> c] : c \in {NotJson} \cup NonObjects \cup FsDocuments}

\* a function's result: the value it returns, or the exception it raises
Return(x) == [raised |-> "", value |-> x]
Raise(e) == [raised |-> e, value |-> <<>>]

\* "coffee"
Coffee == Str(<<"c", "o", "f", "f", "e", "e">>)

\* the dict built in `except json.JSONDecodeError`
FsDefaults(user_prompt, c) ==
    Dict([ll |-> c.ll, near |-> None, radius |-> Num(5000),
          query |-> IF Truthy(user_prompt) THEN user_prompt ELSE Coffee,
          categories |-> None, chains |-> None, open_now |-> None, open_at |-> None,
          min_price |-> None, max_price |-> None,
          sort |-> Str(<<"R", "E", "L", "E", "V", "A", "N", "C", "E">>), limit |-> Num(5), fields |-> None])

\* `if not params.get("limit") or params.get("limit", 0) > 5: params["limit"] = 5`
\* (a str compared with 5 is a TypeError)
ClampLimit(p) ==
    LET limit == Get(p, "limit") IN
    IF ~Truthy(limit) THEN Return(DictSet(p, "limit", Num(5)))
    ELSE IF ~IsNumber(limit) THEN Raise("TypeError")
    ELSE IF limit.v > 5 THEN Return(DictSet(p, "limit", Num(5)))
    ELSE Return(p)

\* `if not params.get("ll"): params["ll"] = ctx["ll"]`: near is not looked at
InjectLl_IgnoresNear(p, c) ==
    IF ~Truthy(Get(p, "ll")) THEN DictSet(p, "ll", c.ll) ELSE p

\* `if not params.get("ll") and not params.get("near"): params["ll"] = ctx["ll"]`
InjectLl(p, c) ==
    IF ~Truthy(Get(p, "ll")) /\ ~Truthy(Get(p, "near")) THEN DictSet(p, "ll", c.ll) ELSE p

\* the value of `params` after the try/except around json.loads
FsParsed(user_prompt, c, content) ==
    IF JsonDecodeError(content) THEN FsDefaults(user_prompt, c) ELSE content

generate_fs_params(user_prompt, c, o) ==
    IF o.kind \in {"exception", "timeout"} THEN Raise("APIError")
    ELSE IF o.kind = "no_content" THEN Raise("TypeError")
    ELSE LET parsed == FsParsed(user_prompt, c, o.content) IN
         IF parsed.t # "dict" THEN Raise("AttributeError")
         ELSE LET clamped == ClampLimit(parsed.v) IN
              IF clamped.raised # "" THEN clamped
              ELSE Return(InjectLl(clamped.value, c))

GenerateFsParams ==
    /\ pc = "generate_fs_params"
    /\ \E o \in FsLlmOutcomes :
        /\ llm' = o
        /\ LET r == generate_fs_params(query, ctx, o) IN
           IF r.raised # ""
           THEN Fail("generate_fs_params", r.raised) /\ UNCHANGED fs_params
           ELSE pc' = "search_foursquare" /\ fs_params' = r.value /\ UNCHANGED result
    /\ calls' = Append(calls, "llm")
    /\ UNCHANGED <<reqVars, apiVars, cacheVars, ranking, ctx, fs_data, ids, details, fs_out, params, base_params, requests,
                   payload, gmVars>>

----------------------------------------------------------------------------
(* _haversine_km and _add_distance *)

\* the points between which this model measures: the request locations of
\* the model, the antipode of (12, 34) and a pole
DistancePoints ==
    <<<<12, 34>>, <<-90, 34>>, <<0, 34>>, <<12, 0>>,
      <<12, -180>>, <<0, 0>>, <<-12, -146>>, <<90, 180>>>>

\* round(R * c, 3) in thousandths of a km from the i-th point to the j-th, each
\* entry the value the function computes for that ordered pair; -1 where
\* math.sqrt(1 - a) raises ValueError("math domain error") because the sum `a`
\* exceeds 1 by rounding
BetweenPoints ==
    <<<<0, 11341883, 1334339, 3695585, 15410289, 3982332, -1, 8673204>>,
      <<11341883, 0, 10007543, 11341883, 11341883, 10007543, 8673204, 20015087>>,
      <<1334339, 10007543, 0, 3982332, 16032754, 3780628, 18680748, 10007543>>,
      <<3695585, 11341883, 3982332, 0, 17346409, 1334339, 16319502, 8673204>>,
      <<15410289, 11341883, 16032754, 17346409, 0, 18680748, 4604797, 8673204>>,
      <<3982332, 10007543, 3780628, 1334339, 18680748, 0, 16032754, 10007543>>,
      <<-1, 8673204, 18680748, 16319502, 4604797, 16032754, 0, 11341883>>,
      <<8673204, 20015087, 10007543, 8673204, 8673204, 10007543, 11341883, 0>>>>

\* the same from each of the first six points to (k, k) for k from 0 to 40
ToDiagonal ==
    <<<<
        3982332, 3839362, 3697455, 3556792, 3417575, 3280034,
        3144434, 3011076, 2880309, 2752533, 2628215, 2507892,
        2392187, 2281815, 2177595, 2080453, 1991420, 1911616,
        1842217, 1784411, 1739312, 1707881, 1690823, 1688510,
        1700928, 1727682, 1768033, 1820987, 1885388, 1960007,
        2043624, 2135075, 2233292, 2337314, 2446288, 2559472,
        2676219, 2795969, 2918237, 3042606, 3168712>>,
      <<
        10007543, 10118738, 10229933, 10341128, 10452323, 10563518,
        10674713, 10785908, 10897103, 11008298, 11119493, 11230688,
        11341883, 11453077, 11564272, 11675467, 11786662, 11897857,
        12009052, 12120247, 12231442, 12342637, 12453832, 12565027,
        12676222, 12787417, 12898611, 13009806, 13121001, 13232196,
        13343391, 13454586, 13565781, 13676976, 13788171, 13899366,
        14010561, 14121756, 14232951, 14344146, 14455340>>,
      <<
        3780628, 3670926, 3564444, 3461546, 3362631, 3268122,
        3178474, 3094167, 3015700, 2943590, 2878360, 2820527,
        2770589, 2729011, 2696203, 2672508, 2658184, 2653391,
        2658184, 2672508, 2696203, 2729011, 2770589, 2820527,
        2878360, 2943590, 3015700, 3094167, 3178474, 3268122,
        3362631, 3461546, 3564444, 3670926, 3780628, 3893208,
        4008356, 4125785, 4245232, 4366454, 4489230>>,
      <<
        1334339, 1228108, 1133589, 1053876, 992460, 952785,
        937497, 947644, 982296, 1038854, 1113834, 1203646,
        1305077, 1415480, 1532768, 1655328, 1781926, 1911616,
        2043663, 2177498, 2312668, 2448813, 2585638, 2722903,
        2860407, 2997978, 3135471, 3272759, 3409729, 3546282,
        3682327, 3817781, 3952568, 4086615, 4219857, 4352228,
        4483667, 4614114, 4743511, 4871803, 4998933>>,
      <<
        18680748, 18565340, 18442752, 18314522, 18181830, 18045581,
        17906475, 17765058, 17621762, 17476933, 17330849, 17183739,
        17035796, 16887178, 16738024, 16588451, 16438564, 16288453,
        16138201, 15987884, 15837567, 15687316, 15537189, 15387242,
        15237527, 15088097, 14938999, 14790283, 14641995, 14494181,
        14346888, 14200160, 14054044, 13908585, 13763829, 13619823,
        13476613, 13334247, 13192773, 13052240, 12912699>>,
      <<
        0, 157249, 314475, 471652, 628758, 785767,
        942656, 1099401, 1255976, 1412358, 1568521, 1724440,
        1880089, 2035444, 2190479, 2345166, 2499479, 2653391,
        2806875, 2959902, 3112445, 3264474, 3415959, 3566871,
        3717179, 3866852, 4015857, 4164163, 4311734, 4458538,
        4604540, 4749703, 4893991, 5037367, 5179791, 5321225,
        5461629, 5600960, 5739177, 5876236, 6012092>>>>

PointIndex(lat, lon) == CHOOSE i \in 1..Len(DistancePoints) : DistancePoints[i] = <<lat, lon>>

IsPoint(lat, lon) == \E i \in 1..Len(DistancePoints) : DistancePoints[i] = <<lat, lon>>

\* _haversine_km at the coordinates of this model.  From (12, 34) to its
\* antipode (-12, -146), in either order, the function raises.
_haversine_km(lat1, lon1, lat2, lon2) ==
    IF IsPoint(lat1, lon1) /\ IsPoint(lat2, lon2)
    THEN LET km == BetweenPoints[PointIndex(lat1, lon1)][PointIndex(lat2, lon2)]
         IN  IF km < 0 THEN Raise("ValueError") ELSE Return(Num(km))
    ELSE Return(Num(ToDiagonal[PointIndex(lat1, lon1)][lat2 + 1]))

_add_distance(c, lat, lon) ==
    IF ~(IsNumber(Get(c, "latitude")) /\ IsNumber(Get(c, "longitude"))
            /\ IsNumber(lat) /\ IsNumber(lon))
    THEN Return(None)
    ELSE _haversine_km(c.latitude.v, c.longitude.v, lat.v, lon.v)

----------------------------------------------------------------------------
(* run_fs: search_foursquare, then fetch_place_details for each identifier *)

\* the i-th place of the directory's search results; every fourth place
\* carries no fsq_place_id
FsPlace(i) == [fsq_place_id |-> IF i % 4 = 0 THEN None ELSE Str(<<"f">> \o Ones(i))]

\* a loop that collects every truthy identifier of the answer
RECURSIVE CollectIds_Uncapped(_, _)
CollectIds_Uncapped(places, got) ==
    IF places = <<>> THEN got
    ELSE LET fid == Get(Head(places), "fsq_place_id") IN
         CollectIds_Uncapped(Tail(places), IF Truthy(fid) THEN Append(got, fid) ELSE got)

\* the loop of search_foursquare: the truthy identifiers, until there are 5
RECURSIVE CollectIds(_, _)
CollectIds(places, got) ==
    IF places = <<>> THEN got
    ELSE LET fid == Get(Head(places), "fsq_place_id")
             now == IF Truthy(fid) THEN Append(got, fid) ELSE got
         IN  IF Len(now) >= 5 THEN now ELSE CollectIds(Tail(places), now)

\* the detail document of a place; every third one has no latitude
FsDetail(fid) ==
    [fsq_place_id |-> fid, name |-> Str(<<"n">> \o Tail(fid.v)),
     latitude |-> IF Len(fid.v) % 3 = 0 THEN None ELSE Num(Len(fid.v)),
     longitude |-> Num(Len(fid.v))]

\* the same place, listed at the antipode of the request's location
FsDetailAntipode(fid) ==
    [fsq_place_id |-> fid, name |-> Str(<<"n">> \o Tail(fid.v)),
     latitude |-> Num(-12), longitude |-> Num(-146)]

FsDetails(fid) == {FsDetail(fid), FsDetailAntipode(fid)}

summarize_fs(detail) ==
    [fsq_place_id |-> Get(detail, "fsq_place_id"), name |-> Get(detail, "name"),
     latitude |-> Get(detail, "latitude"), longitude |-> Get(detail, "longitude")]

\* rec["distance_km"] = _add_distance(ctx, rec.get("latitude"), rec.get("longitude"))
WithDistance(c, rec) ==
    LET d == _add_distance(c, Get(rec, "latitude"), Get(rec, "longitude")) IN
    IF d.raised # "" THEN d ELSE Return(DictSet(rec, "distance_km", d.value))

\* a result dict whose count stops at 5
Out_CountCappedAt5(records) ==
    [context |-> ctx, query |-> query,
     count |-> IF Len(records) > 5 THEN 5 ELSE Len(records), results |-> records]

\* the dict run_fs and run_gm return
Out(records) == [context |-> ctx, query |-> query, count |-> Len(records), results |-> records]

\* search_foursquare raises (raise_for_status, a timeout, r.json()) or returns
\* the identifiers; with none, run_fs returns at once
SearchFoursquare ==
    /\ pc = "search_foursquare"
    /\ \/ Fail("search_foursquare", "HTTPError") /\ UNCHANGED <<fs_data, ids, fs_out>>
       \/ \E n \in 0..MaxPlaces :
            LET found == CollectIds([i \in 1..n |-> FsPlace(i)], <<>>) IN
            /\ fs_data' = [i \in 1..n |-> FsPlace(i)]
            /\ ids' = found
            /\ IF found = <<>>
               THEN pc' = "generate_serp_params" /\ fs_out' = Out(<<>>)
               ELSE pc' = "fetch_place_details" /\ UNCHANGED fs_out
            /\ UNCHANGED result
    /\ calls' = Append(calls, "fsq_search")
    /\ llm' = <<>>
    /\ fs_params' = <<>>
    /\ UNCHANGED <<reqVars, apiVars, cacheVars, ranking, ctx, details, params, base_params, requests,
                   payload, gmVars>>

\* a loop that takes the identifiers from the last to the first
NextIdentifier_FromTheEnd == ids[Len(ids) - Len(details)]

\* `for fid in ids`: the identifier of the turn, when Len(details) turns are done
NextIdentifier == ids[Len(details) + 1]

\* one turn of the loop of run_fs: the detail call for the next identifier,
\* which raises or yields the record, and the record's distance; after the
\* last, run_fs returns
FetchPlaceDetails ==
    /\ pc = "fetch_place_details"
    /\ LET fid == NextIdentifier IN
       \/ Fail("fetch_place_details", "HTTPError") /\ UNCHANGED <<details, fs_out>>
       \/ \E detail \in FsDetails(fid) :
            LET rec == WithDistance(ctx, summarize_fs(detail))
                recs == Append(details, rec.value)
            IN  IF rec.raised # ""
                THEN Fail("_haversine_km", rec.raised) /\ UNCHANGED <<details, fs_out>>
                ELSE /\ details' = recs
                     /\ IF Len(recs) = Len(ids)
                        THEN pc' = "generate_serp_params" /\ fs_out' = Out(recs)
                        ELSE pc' = "fetch_place_details" /\ UNCHANGED fs_out
                     /\ UNCHANGED result
    /\ calls' = Append(calls, "fsq_detail")
    /\ UNCHANGED <<reqVars, apiVars, cacheVars, ranking, ctx, llm, fs_params, fs_data, ids, params, base_params, requests,
                   payload, gmVars>>

----------------------------------------------------------------------------
(* generate_serp_params *)

\* int(s) for a str: the number a string of digits denotes, ValueError otherwise
Digits == <<"0", "1", "2", "3", "4", "5", "6", "7", "8", "9">>

DigitValue(ch) == (CHOOSE i \in 1..10 : Digits[i] = ch) - 1

RECURSIVE ParseInt(_, _)
ParseInt(s, acc) ==
    IF s = <<>> THEN Return(acc)
    ELSE IF \A i \in 1..10 : Digits[i] # Head(s) THEN Raise("ValueError")
    ELSE ParseInt(Tail(s), 10 * acc + DigitValue(Head(s)))

IntOf(s) == IF s = <<>> THEN Raise("ValueError") ELSE ParseInt(s, 0)

HlEn == Str(<<"e", "n">>)
GlIn == Str(<<"i", "n">>)
GoogleLocal == Str(<<"g", "o", "o", "g", "l", "e", "_", "l", "o", "c", "a", "l">>)
SERP_API_KEY == Str(<<"K", "E", "Y">>)

\* x or y
Or(x, y) == IF Truthy(x) THEN x ELSE y

\* the planner's outputs for the web-local provider: the location it names
\* (or not), and a num and hl that are given or not
GmLocations ==
    {Absent, None, Str(<<>>), Str(<<"a">>), Str(<<"a", ",", " ", "b">>),
     Str(<<"b", ",", "a", " ", ",", "c">>), Str(<<",">>)}

GmDocuments ==
    {Document([q |-> Str(<<"q">>), location |-> l, num |-> Absent, hl |-> Absent]) :
        l \in GmLocations}
        \cup {Document([q |-> Str(<<"q">>), location |-> Absent, num |-> n, hl |-> Str(<<"h", "i">>)]) :
                 n \in {Str(<<"7">>), Str(<<"x">>), Num(0)}}

GmLlmOutcomes ==
    LlmFailures
        \cup {[kind |-> "text", content |-> c] : c \in {NotJson} \cup NonObjects \cup GmDocuments}

\* the dict built in `except json.JSONDecodeError`
GmDefaults(user_prompt, c) ==
    Dict([engine |-> GoogleLocal,
          q |-> IF Truthy(user_prompt) THEN user_prompt ELSE Coffee,
          location |-> Or(Get(c, "text_location"), None),
          hl |-> HlEn, gl |-> GlIn, num |-> Num(10)])

\* params.setdefault("engine", "google_local")
SetDefaultEngine(p) == IF "engine" \in DOMAIN p THEN p ELSE DictSet(p, "engine", GoogleLocal)

\* `if not params.get("location") and ctx.get("text_location")`
FillLocation(p, c) ==
    IF ~Truthy(Get(p, "location")) /\ Truthy(Get(c, "text_location"))
    THEN DictSet(p, "location", c.text_location)
    ELSE p

\* `if isinstance(params.get("num"), str)`: int(), 10 on ValueError
NumFromStr(p) ==
    IF Get(p, "num").t = "str"
    THEN DictSet(p, "num",
                 IF IntOf(p["num"].v).raised = "" THEN Num(IntOf(p["num"].v).value) ELSE Num(10))
    ELSE p

\* the defaults of hl, gl and num, and the api key
FillDefaults(p) ==
    [k \in DOMAIN p \cup {"hl", "gl", "num", "api_key"} |->
        CASE k = "hl" -> Or(Get(p, "hl"), HlEn)
          [] k = "gl" -> Or(Get(p, "gl"), GlIn)
          [] k = "num" -> Or(Get(p, "num"), Num(10))
          [] k = "api_key" -> SERP_API_KEY
          [] OTHER -> p[k]]

generate_serp_params(user_prompt, c, o) ==
    IF o.kind \in {"exception", "timeout"} THEN Raise("APIError")
    ELSE IF o.kind = "no_content" THEN Raise("TypeError")
    ELSE LET parsed == IF JsonDecodeError(o.content) THEN GmDefaults(user_prompt, c)
                       ELSE o.content
         IN  IF parsed.t # "dict" THEN Raise("AttributeError")
             ELSE Return(FillDefaults(NumFromStr(FillLocation(SetDefaultEngine(parsed.v), c))))

\* run_gm: `if params.get("location"): params["location"] = _simplify_location(...)`
EarlySimplify(p) ==
    IF Truthy(Get(p, "location"))
    THEN DictSet(p, "location", _simplify_location(p["location"]))
    ELSE p

\* the first statements of run_gm, up to the call of fetch_local_results
GenerateSerpParams ==
    /\ pc = "generate_serp_params"
    /\ \E o \in GmLlmOutcomes :
        /\ llm' = o
        /\ LET r == generate_serp_params(query, ctx, o) IN
           IF r.raised # ""
           THEN Fail("generate_serp_params", r.raised) /\ UNCHANGED params
           ELSE pc' = "fetch_local_results" /\ params' = EarlySimplify(r.value)
                /\ UNCHANGED result
    /\ calls' = Append(calls, "llm")
    /\ UNCHANGED <<reqVars, apiVars, cacheVars, ranking, ctx, fsVars, base_params, requests, payload, gmVars>>

----------------------------------------------------------------------------
(* run_gm after fetch_local_results: normalize_results and the review loop *)

\* a record whose identifier prefers the textual place_id
NormalizeItem_PlaceIdFirst(item) ==
    LET gps == IF "gps_coordinates" \in DOMAIN item THEN item["gps_coordinates"] ELSE <<>> IN
    [google_place_id |-> Or(Get(item, "place_id"), Or(Get(item, "data_id"), Get(item, "ludocid"))),
     name |-> Get(item, "title"),
     address |-> Get(item, "address"),
     latitude |-> Get(gps, "latitude"),
     longitude |-> Get(gps, "longitude"),
     recent_reviews |-> None]

\* one record of normalize_results
NormalizeItem(item) ==
    LET gps == IF "gps_coordinates" \in DOMAIN item THEN item["gps_coordinates"] ELSE <<>> IN
    [google_place_id |-> Or(Get(item, "data_id"), Or(Get(item, "place_id"), Get(item, "ludocid"))),
     name |-> Get(item, "title"),
     address |-> Get(item, "address"),
     latitude |-> Get(gps, "latitude"),
     longitude |-> Get(gps, "longitude"),
     recent_reviews |-> None]

\* payload.get("local_results", []) or [], one record per item
normalize_results(p) ==
    LET local_results == IF "local_results" \in DOMAIN p.v THEN p.v["local_results"] ELSE <<>>
    IN  [i \in 1..Len(local_results) |-> NormalizeItem(local_results[i])]

\* `results = normalize_results(payload)[:7] if payload else []`; with no
\* record run_gm returns at once
NormalizeResults ==
    /\ pc = "returned"
    /\ LET recs == IF Truthy(payload) THEN Take(normalize_results(payload), 7) ELSE <<>> IN
       /\ results' = recs
       /\ IF recs = <<>>
          THEN pc' = "combine" /\ gm_out' = Out(recs) /\ idx' = 0
          ELSE pc' = "add_distance" /\ idx' = 1 /\ UNCHANGED gm_out
    /\ UNCHANGED <<reqVars, apiVars, cacheVars, ranking, ctx, llm, fsVars, params, base_params, requests, payload,
                   id_param, review_log, result, calls>>

\* the start of one turn of the loop of run_gm: the record's distance
AddDistance ==
    /\ pc = "add_distance"
    /\ LET rec == WithDistance(ctx, results[idx]) IN
       IF rec.raised # ""
       THEN Fail("_haversine_km", rec.raised) /\ UNCHANGED results
       ELSE pc' = "fetch_reviews" /\ results' = [results EXCEPT ![idx] = rec.value]
            /\ UNCHANGED result
    /\ UNCHANGED <<reqVars, apiVars, cacheVars, ranking, ctx, llm, fsVars, params, base_params, requests, payload,
                   idx, id_param, review_log, gm_out, calls>>

\* str(x): a str as it is, a number in decimal digits
RECURSIVE Decimal(_)
Decimal(n) ==
    IF n < 10 THEN <<Digits[n + 1]>> ELSE Append(Decimal(n \div 10), Digits[(n % 10) + 1])

StrOf(x) == IF x.t = "str" THEN x ELSE Str(Decimal(x.v))

\* s.startswith("0x")
StartsWith0x(s) == Len(s) >= 2 /\ s[1] = "0" /\ s[2] = "x"

\* a _format_google_place_id that sends the identifier under both names
_format_google_place_id_BothNames(id_value) ==
    IF ~Truthy(id_value) THEN <<>>
    ELSE [data_id |-> id_value, place_id |-> StrOf(id_value)]

_format_google_place_id(id_value) ==
    IF ~Truthy(id_value) THEN <<>>
    ELSE IF id_value.t = "str" /\ StartsWith0x(id_value.v) THEN [data_id |-> id_value]
    ELSE [place_id |-> StrOf(id_value)]

_select_review_identifier(r) ==
    IF Truthy(Get(r, "google_place_id"))
    THEN _format_google_place_id(r["google_place_id"])
    ELSE <<>>

\* the q of the name and address lookup
LookupQuery(r) ==
    Strip(Or(Get(r, "name"), Str(<<>>)).v \o <<" ">> \o Or(Get(r, "address"), Str(<<>>)).v)

\* the bodies the lookup endpoint answers with
LookupDataId == Str(<<"0", "x", "9">>)
LookupPlaceId == Str(<<"C", "h", "9">>)

LookupBodies ==
    {EmptyDict,
     Dict([place_results |-> [data_id |-> LookupDataId, place_id |-> LookupPlaceId]]),
     Dict([place_results |-> [place_id |-> LookupPlaceId]]),
     Dict([place_results |-> [place_id |-> LookupPlaceId],
           local_results |-> <<[data_id |-> LookupDataId]>>]),
     Dict([local_results |-> <<[place_id |-> LookupPlaceId], [data_id |-> LookupDataId]>>]),
     Dict([local_results |-> <<[title |-> Str(<<"t">>)], [data_id |-> LookupDataId]>>]),
     List(1)}

LookupOutcomes ==
    {[kind |-> k, body |-> None] : k \in FailureKinds}
        \cup {[kind |-> "ok", body |-> b] : b \in LookupBodies}

\* the first identifier of the loose matches: data_id, else place_id, per item
RECURSIVE FirstIdentifier(_)
FirstIdentifier(items) ==
    IF items = <<>> THEN None
    ELSE IF Truthy(Get(Head(items), "data_id")) THEN Head(items)["data_id"]
    ELSE IF Truthy(Get(Head(items), "place_id")) THEN Head(items)["place_id"]
    ELSE FirstIdentifier(Tail(items))

\* _resolve_data_id_via_maps, once the request is answered: None on a failed
\* request, AttributeError on a body that is no dict
_resolve_data_id_via_maps(o) ==
    IF o.kind # "ok" THEN Return(None)
    ELSE IF o.body.t # "dict" THEN Raise("AttributeError")
    ELSE LET pr == IF "place_results" \in DOMAIN o.body.v THEN o.body.v["place_results"] ELSE <<>>
             lr == IF "local_results" \in DOMAIN o.body.v THEN o.body.v["local_results"] ELSE <<>>
         IN  IF Truthy(Get(pr, "data_id")) THEN Return(pr["data_id"])
             ELSE IF Truthy(Get(pr, "place_id")) THEN Return(pr["place_id"])
             ELSE Return(FirstIdentifier(lr))

\* the answers of the review listing: a dict with no, one or MaxReviewItems
\* reviews, one without the key, one whose second review is no dict, and a
\* body that is no dict
RawReview(j) == Dict([rating |-> Num(j), snippet |-> Str(<<"r">> \o Ones(j))])

ReviewBodies ==
    {Dict([reviews |-> [j \in 1..k |-> RawReview(j)]]) : k \in {0, 1, MaxReviewItems}}
        \cup {EmptyDict, Dict([reviews |-> <<RawReview(1), Str(<<"x">>)>>]), List(1)}

ReviewOutcomes ==
    {[kind |-> k, body |-> None] : k \in FailureKinds}
        \cup {[kind |-> "ok", body |-> b] : b \in ReviewBodies}

\* payload.get("reviews", []) or []
ReviewsOf(body) == IF "reviews" \in DOMAIN body.v THEN body.v["reviews"] ELSE <<>>

\* the loop over all of reviews, without the cut to max_reviews
ReviewSnippets_NoCut(reviews, max_reviews) ==
    IF \E i \in 1..Len(reviews) : reviews[i].t # "dict" THEN Raise("AttributeError")
    ELSE Return([i \in 1..Len(reviews) |->
                    [rating |-> Get(reviews[i].v, "rating"),
                     snippet |-> Get(reviews[i].v, "snippet")]])

\* the loop over reviews[:max_reviews]; rv.get on a review that is no dict is
\* an AttributeError
ReviewSnippets(reviews, max_reviews) ==
    LET kept == Take(reviews, max_reviews) IN
    IF \E i \in 1..Len(kept) : kept[i].t # "dict" THEN Raise("AttributeError")
    ELSE Return([i \in 1..Len(kept) |->
                    [rating |-> Get(kept[i].v, "rating"), snippet |-> Get(kept[i].v, "snippet")]])

\* fetch_reviews returns `reviews` cut to 3 (or raises); run_gm stores
\* `... or None` in the record and goes on to the next record, or returns
FinishRecord(reviews) ==
    LET out == ReviewSnippets(reviews, 3) IN
    /\ id_param' = <<>>
    /\ IF out.raised # ""
       THEN Fail("fetch_reviews", out.raised) /\ UNCHANGED <<results, idx, gm_out>>
       ELSE LET recs == [results EXCEPT ![idx].recent_reviews =
                            IF out.value = <<>> THEN None ELSE List(out.value)]
            IN  /\ results' = recs
                /\ UNCHANGED result
                /\ IF idx = Len(results)
                   THEN pc' = "combine" /\ gm_out' = Out(recs) /\ idx' = 0
                   ELSE pc' = "add_distance" /\ idx' = idx + 1 /\ UNCHANGED gm_out

\* the kinds of identifier the answer of the lookup holds, in place_results
\* or in an item of local_results
Offered(o) ==
    IF o.kind # "ok" \/ o.body.t # "dict" THEN {}
    ELSE LET pr == IF "place_results" \in DOMAIN o.body.v THEN o.body.v["place_results"] ELSE <<>>
             lr == IF "local_results" \in DOMAIN o.body.v THEN o.body.v["local_results"] ELSE <<>>
         IN  {k \in {"data_id", "place_id"} :
                 Truthy(Get(pr, k)) \/ \E i \in 1..Len(lr) : Truthy(Get(lr[i], k))}

\* what the lookup and the review requests take from run_gm's parameters:
\* base_params.get("api_key") and base_params.get("hl", "en")
FromParams(bp) ==
    [api_key |-> Get(bp, "api_key"), hl |-> IF "hl" \in DOMAIN bp THEN bp["hl"] ELSE HlEn]

\* a lookup, logged after the requests in `before` with the kinds of
\* identifier its answer offered: no request when the record has neither
\* name nor address
Lookup(r, before, found(_)) ==
    IF LookupQuery(r) = <<>>
    THEN found(Return(None)) /\ review_log' = before /\ UNCHANGED calls
    ELSE /\ calls' = Append(calls, "serp_maps")
         /\ \E o \in LookupOutcomes :
               /\ found(_resolve_data_id_via_maps(o))
               /\ review_log' = Append(before, [call |-> "serp_maps", rec |-> idx,
                                                p |-> LookupQuery(r), offered |-> Offered(o),
                                                base |-> FromParams(params),
                                                got |-> _resolve_data_id_via_maps(o)])

\* fetch_reviews for a record without identifier: the lookup comes first, and
\* nothing resolved means no reviews
ResolveFirst ==
    /\ pc = "fetch_reviews"
    /\ _select_review_identifier(results[idx]) = <<>>
    /\ LET found(r) ==
               IF r.raised # ""
               THEN Fail("_resolve_data_id_via_maps", r.raised)
                    /\ UNCHANGED <<results, idx, id_param, gm_out>>
               ELSE IF ~Truthy(r.value) THEN FinishRecord(<<>>)
               ELSE /\ pc' = "reviews_request"
                    /\ id_param' = _format_google_place_id(r.value)
                    /\ UNCHANGED <<results, idx, gm_out, result>>
       IN  Lookup(results[idx], <<>>, found)
    /\ UNCHANGED <<reqVars, apiVars, cacheVars, ranking, ctx, llm, fsVars, params, base_params, requests, payload>>

\* the first review request, with the identifier of the record or the one
\* just resolved; a failed request counts as no reviews
ReviewsRequest ==
    /\ \/ pc = "fetch_reviews" /\ _select_review_identifier(results[idx]) # <<>>
       \/ pc = "reviews_request"
    /\ calls' = Append(calls, "serp_reviews")
    /\ \E o \in ReviewOutcomes :
        LET body == IF o.kind = "ok" THEN o.body ELSE EmptyDict
            first == pc = "fetch_reviews"
            sent == [call |-> "serp_reviews", rec |-> idx,
                     p |-> IF first THEN _select_review_identifier(results[idx]) ELSE id_param,
                     base |-> FromParams(params),
                     got |-> IF body.t # "dict" THEN Raise("AttributeError")
                             ELSE Return(ReviewsOf(body))]
        IN
        /\ review_log' = Append(IF first THEN <<>> ELSE review_log, sent)
        /\ IF body.t # "dict"
           THEN Fail("fetch_reviews", "AttributeError")
                /\ UNCHANGED <<results, idx, id_param, gm_out>>
           ELSE IF ReviewsOf(body) = <<>>
           THEN pc' = "resolve_retry" /\ UNCHANGED <<results, idx, id_param, gm_out, result>>
           ELSE FinishRecord(ReviewsOf(body))
    /\ UNCHANGED <<reqVars, apiVars, cacheVars, ranking, ctx, llm, fsVars, params, base_params, requests, payload>>

\* a retry that sends the identifier of the first request again, with no
\* lookup in between
ResolveRetry_SameIdentifier ==
    /\ pc = "resolve_retry"
    /\ pc' = "reviews_retry"
    /\ id_param' = review_log[Len(review_log)].p
    /\ UNCHANGED <<reqVars, apiVars, cacheVars, ranking, ctx, llm, fsVars, params, base_params, requests, payload,
                   results, idx, review_log, gm_out, result, calls>>

\* no reviews: the identifier is resolved again from name and address
ResolveRetry ==
    /\ pc = "resolve_retry"
    /\ LET found(r) ==
               IF r.raised # ""
               THEN Fail("_resolve_data_id_via_maps", r.raised)
                    /\ UNCHANGED <<results, idx, id_param, gm_out>>
               ELSE IF ~Truthy(r.value) THEN FinishRecord(<<>>)
               ELSE /\ pc' = "reviews_retry"
                    /\ id_param' = _format_google_place_id(r.value)
                    /\ UNCHANGED <<results, idx, gm_out, result>>
       IN  Lookup(results[idx], review_log, found)
    /\ UNCHANGED <<reqVars, apiVars, cacheVars, ranking, ctx, llm, fsVars, params, base_params, requests, payload>>

\* the second review request; every exception of it counts as no reviews
ReviewsRetry ==
    /\ pc = "reviews_retry"
    /\ calls' = Append(calls, "serp_reviews")
    /\ \E o \in ReviewOutcomes :
        LET reviews == IF o.kind = "ok" /\ o.body.t = "dict" THEN ReviewsOf(o.body) ELSE <<>> IN
        /\ review_log' = Append(review_log, [call |-> "serp_reviews", rec |-> idx,
                                             p |-> id_param, base |-> FromParams(params),
                                             got |-> Return(reviews)])
        /\ FinishRecord(reviews)
    /\ UNCHANGED <<reqVars, apiVars, cacheVars, ranking, ctx, llm, fsVars, params, base_params, requests, payload>>

----------------------------------------------------------------------------
(* search_places_api *)

\* the combined results, returned as success
Combine ==
    /\ pc = "combine"
    /\ result' =
          [success |-> TRUE,
           data |-> [query |-> query, context |-> ctx,
                     foursquare |-> [count |-> fs_out.count, results |-> fs_out.results],
                     google |-> [count |-> gm_out.count, results |-> gm_out.results]]]
    /\ pc' = "done"
    /\ UNCHANGED <<reqVars, apiVars, cacheVars, ranking, ctx, llm, fsVars, params, base_params, requests, payload,
                   gmVars, calls>>

\* the queries that reach search_places_api: a word, and blanks only
Queries == {Str(<<"p">>), Str(<<" ">>)}

Init ==
    /\ pc = "create_context_from_location"
    /\ query \in Queries
    /\ location_data \in LocationInputs
    /\ ctx = <<>>
    /\ llm = <<>>
    /\ fs_params = <<>>
    /\ fs_data = <<>>
    /\ ids = <<>>
    /\ details = <<>>
    /\ fs_out = <<>>
    /\ params = <<>>
    /\ base_params = <<>>
    /\ requests = <<>>
    /\ payload = None
    /\ results = <<>>
    /\ idx = 0
    /\ id_param = <<>>
    /\ review_log = <<>>
    /\ gm_out = <<>>
    /\ result = <<>>
    /\ ranking = <<>>
    /\ DirectCall
    /\ calls = <<>>

Next ==
    \/ CreateContext
    \/ GenerateFsParams
    \/ SearchFoursquare
    \/ FetchPlaceDetails
    \/ GenerateSerpParams
    \/ FetchLocalEnter
    \/ AttemptInitial
    \/ AttemptAggressive
    \/ AttemptNoLocation
    \/ NormalizeResults
    \/ AddDistance
    \/ ResolveFirst
    \/ ReviewsRequest
    \/ ResolveRetry
    \/ ReviewsRetry
    \/ Combine

Spec == Init /\ [][Next]_vars

----------------------------------------------------------------------------
(* search_places_api up to the call of fetch_local_results: the context,   *)
(* run_fs, and the planner call of run_gm                                  *)

NextDirectory ==
    \/ CreateContext
    \/ GenerateFsParams
    \/ SearchFoursquare
    \/ FetchPlaceDetails
    \/ GenerateSerpParams

SpecDirectory == Init /\ [][NextDirectory]_vars

----------------------------------------------------------------------------
(* search_places_api from the call of fetch_local_results on: the rest of  *)
(* run_gm and the combined result.  It starts where SpecDirectory ends,    *)
(* for one request whose directory side returned two records.              *)

RunGmLocation == [latitude |-> Num(12), longitude |-> Num(34)]

RunGmDetails ==
    [i \in 1..2 |->
        WithDistance(create_context_from_location(RunGmLocation, None),
                     summarize_fs(FsDetail(CollectIds([j \in 1..2 |-> FsPlace(j)], <<>>)[i]))).value]

InitRunGm ==
    /\ pc = "fetch_local_results"
    /\ query = Str(<<"p">>)
    /\ location_data = RunGmLocation
    /\ ctx = create_context_from_location(location_data, None)
    /\ llm \in {o \in GmLlmOutcomes : generate_serp_params(query, ctx, o).raised = ""}
    /\ fs_params = <<>>
    /\ fs_data = [j \in 1..2 |-> FsPlace(j)]
    /\ ids = CollectIds(fs_data, <<>>)
    /\ details = RunGmDetails
    /\ fs_out = Out(details)
    /\ params = EarlySimplify(generate_serp_params(query, ctx, llm).value)
    /\ base_params = <<>>
    /\ requests = <<>>
    /\ payload = None
    /\ results = <<>>
    /\ idx = 0
    /\ id_param = <<>>
    /\ review_log = <<>>
    /\ gm_out = <<>>
    /\ result = <<>>
    /\ ranking = <<>>
    /\ DirectCall
    /\ calls = <<"nominatim", "llm", "fsq_search", "fsq_detail", "fsq_detail", "llm">>

NextRunGm ==
    \/ FetchLocalEnter
    \/ AttemptInitial
    \/ AttemptAggressive
    \/ AttemptNoLocation
    \/ NormalizeResults
    \/ AddDistance
    \/ ResolveFirst
    \/ ReviewsRequest
    \/ ResolveRetry
    \/ ReviewsRetry
    \/ Combine

SpecRunGm == InitRunGm /\ [][NextRunGm]_vars

----------------------------------------------------------------------------
(* search_places_api from the call of run_fs on: run_fs, run_gm and the    *)
(* combined result, for one request whose context has been built           *)

InitSearch ==
    /\ pc = "generate_fs_params"
    /\ query = Str(<<"p">>)
    /\ location_data = RunGmLocation
    /\ ctx = create_context_from_location(location_data, None)
    /\ llm = <<>>
    /\ fs_params = <<>>
    /\ fs_data = <<>>
    /\ ids = <<>>
    /\ details = <<>>
    /\ fs_out = <<>>
    /\ params = <<>>
    /\ base_params = <<>>
    /\ requests = <<>>
    /\ payload = None
    /\ results = <<>>
    /\ idx = 0
    /\ id_param = <<>>
    /\ review_log = <<>>
    /\ gm_out = <<>>
    /\ result = <<>>
    /\ ranking = <<>>
    /\ DirectCall
    /\ calls = <<"nominatim">>

NextSearch ==
    \/ GenerateFsParams
    \/ SearchFoursquare
    \/ FetchPlaceDetails
    \/ GenerateSerpParams
    \/ FetchLocalEnter
    \/ AttemptInitial
    \/ AttemptAggressive
    \/ AttemptNoLocation
    \/ NormalizeResults
    \/ AddDistance
    \/ ResolveFirst
    \/ ReviewsRequest
    \/ ResolveRetry
    \/ ReviewsRetry
    \/ Combine

SpecSearch == InitSearch /\ [][NextSearch]_vars

----------------------------------------------------------------------------
(* fetch_local_results on its own, for every parameter set *)

\* the parameter sets: every location string, with and without the phrase,
\* None, and no location key
LadderParams ==
    LET rest == [q |-> Str(<<"p">>), hl |-> HlEn, gl |-> GlIn, num |-> Num(10),
                 engine |-> GoogleLocal, api_key |-> SERP_API_KEY]
    IN  {rest} \cup {DictSet(rest, "location", None)}
               \cup {DictSet(rest, "location", Str(s)) :
                        s \in StringsUpTo(MaxLocLen) \cup PieceStrings(MaxLadderPieces)}

InitLadder ==
    /\ pc = "fetch_local_results"
    /\ query = Str(<<"p">>)
    /\ location_data = <<>>
    /\ ctx = <<>>
    /\ llm = <<>>
    /\ fs_params = <<>>
    /\ fs_data = <<>>
    /\ ids = <<>>
    /\ details = <<>>
    /\ fs_out = <<>>
    /\ params \in LadderParams
    /\ base_params = <<>>
    /\ requests = <<>>
    /\ payload = None
    /\ results = <<>>
    /\ idx = 0
    /\ id_param = <<>>
    /\ review_log = <<>>
    /\ gm_out = <<>>
    /\ result = <<>>
    /\ ranking = <<>>
    /\ DirectCall
    /\ calls = <<>>

NextLadder ==
    \/ FetchLocalEnter
    \/ AttemptInitial
    \/ AttemptAggressive
    \/ AttemptNoLocation

SpecLadder == InitLadder /\ [][NextLadder]_vars

----------------------------------------------------------------------------
(* The loop of run_gm on its own: the distance and fetch_reviews for each   *)
(* of one or two normalized records, then the combined result              *)

\* an item whose only identifier is a ludocid, given as a number
LudocidItem ==
    [title |-> Str(<<"p">>), address |-> None, data_id |-> None, place_id |-> None,
     ludocid |-> Num(42), gps_coordinates |-> [latitude |-> Num(1), longitude |-> Num(1)]]

ReviewItems == {RawItem(i) : i \in 1..4} \cup {LudocidItem}

ReviewPayloads ==
    {Dict([local_results |-> <<a>>]) : a \in ReviewItems}
        \cup {Dict([local_results |-> <<a, b>>]) : a \in ReviewItems, b \in ReviewItems}

InitReviews ==
    /\ pc = "add_distance"
    /\ query = Str(<<"p">>)
    /\ location_data \in LocationInputs
    /\ ctx = create_context_from_location(location_data, None)
    /\ llm = [kind |-> "text", content |-> NotJson]
    /\ fs_params = <<>>
    /\ fs_data = [j \in 1..2 |-> FsPlace(j)]
    /\ ids = CollectIds(fs_data, <<>>)
    /\ details = [i \in 1..2 |-> WithDistance(ctx, summarize_fs(FsDetail(ids[i]))).value]
    /\ fs_out = Out(details)
    /\ params = EarlySimplify(generate_serp_params(query, ctx, llm).value)
    /\ base_params = PreSimplify(params)
    /\ payload \in ReviewPayloads
    /\ requests = <<[tag |-> "initial", p |-> base_params,
                     outcome |-> [kind |-> "ok", body |-> payload]]>>
    /\ results = Take(normalize_results(payload), 7)
    /\ idx = 1
    /\ id_param = <<>>
    /\ review_log = <<>>
    /\ gm_out = <<>>
    /\ result = <<>>
    /\ ranking = <<>>
    /\ DirectCall
    /\ calls = (IF IsNumber(Get(location_data, "latitude"))
                   /\ IsNumber(Get(location_data, "longitude"))
                THEN <<"nominatim">> ELSE <<>>)
               \o <<"llm", "fsq_search", "fsq_detail", "fsq_detail", "llm", "serp_local">>

NextReviews ==
    \/ AddDistance
    \/ ResolveFirst
    \/ ReviewsRequest
    \/ ResolveRetry
    \/ ReviewsRetry
    \/ Combine

SpecReviews == InitReviews /\ [][NextReviews]_vars

----------------------------------------------------------------------------
(* rank_places_api (src/src/ranking.py) *)

\* the keys of the ranking answer, in the order they are written, and their
\* characters
RankKeys == <<"query_analysis", "interpreted_intent", "ranked_places", "rank">>

KeyChars(k) ==
    CASE k = "query_analysis" -> <<"q", "u", "e", "r", "y", "_", "a", "n", "a", "l", "y", "s", "i", "s">>
      [] k = "interpreted_intent" -> <<"i", "n", "t", "e", "r", "p", "r", "e", "t", "e", "d", "_", "i", "n", "t", "e", "n", "t">>
      [] k = "ranked_places" -> <<"r", "a", "n", "k", "e", "d", "_", "p", "l", "a", "c", "e", "s">>
      [] k = "rank" -> <<"r", "a", "n", "k">>

\* the double quote of JSON strings and keys
Quote == "\""

\* the JSON text of a value: null, a number, a string, a list, an object
RECURSIVE JsonText(_)
RECURSIVE JsonItems(_)
RECURSIVE JsonMembers(_, _)
JsonItems(xs) ==
    IF xs = <<>> THEN <<>>
    ELSE JsonText(Head(xs)) \o (IF Len(xs) > 1 THEN <<",">> ELSE <<>>) \o JsonItems(Tail(xs))

JsonMembers(f, keys) ==
    IF keys = <<>> THEN <<>>
    ELSE LET rest == JsonMembers(f, Tail(keys)) IN
         IF Head(keys) \notin DOMAIN f THEN rest
         ELSE <<Quote>> \o KeyChars(Head(keys)) \o <<Quote, ":">> \o JsonText(f[Head(keys)])
                  \o (IF rest = <<>> THEN <<>> ELSE <<",">>) \o rest

JsonText(x) ==
    CASE x.t = "none" -> <<"n", "u", "l", "l">>
      [] x.t = "num" -> Decimal(x.v)
      [] x.t = "str" -> <<Quote>> \o x.v \o <<Quote>>
      [] x.t = "list" -> <<"[">> \o JsonItems(x.v) \o <<"]">>
      [] x.t = "dict" -> <<"{">> \o JsonMembers(x.v, RankKeys) \o <<"}">>

\* the ranked_places lists of an answer: up to MaxRanked places, each with a
\* rank from 0 to MaxRanked + 1
RankedPlace(r) == Dict([rank |-> Num(r)])

RECURSIVE RankedLists(_)
RankedLists(n) ==
    IF n = 0 THEN {<<>>}
    ELSE RankedLists(n - 1)
            \cup {Append(l, RankedPlace(r)) :
                     l \in {m \in RankedLists(n - 1) : Len(m) = n - 1}, r \in 0..(MaxRanked + 1)}

QueryAnalysis == Dict([interpreted_intent |-> Str(<<"i">>)])

\* the JSON values the ranking LLM may answer with: objects with or without
\* query_analysis and ranked_places, and values that are no object
RankValues ==
    {Document([query_analysis |-> qa, ranked_places |-> rp]) :
        qa \in {Absent, QueryAnalysis},
        rp \in {Absent, None} \cup {[t |-> "list", v |-> l] : l \in RankedLists(MaxRanked)}}
        \cup {None, Num(7), Str(<<"x">>), [t |-> "list", v |-> <<>>],
              [t |-> "list", v |-> <<Num(1)>>]}

\* texts that are no JSON document: nothing, prose, and an object after prose
GarbageTexts ==
    {<<>>, <<"o", "o", "p", "s">>, <<"h", "i", " ", "{", "}">>}

\* json.loads(text): the value whose JSON text this is, JSONDecodeError
\* (NotJson) if there is none
JsonLoads(text) ==
    IF \E x \in RankValues : JsonText(x) = text
    THEN CHOOSE x \in RankValues : JsonText(x) = text
    ELSE NotJson

\* what the LLM call of rank_places_api can do
RankLlmOutcomes ==
    LlmFailures
        \cup {[kind |-> "text", content |-> Str(JsonText(x))] : x \in RankValues}
        \cup {[kind |-> "text", content |-> Str(g)] : g \in GarbageTexts}

InvalidJson == <<"rank_places_api", "Invalid JSON response from AI">>

\* a rank_places_api that keeps no raw text when the answer is no JSON
rank_places_api_DropsRawText(combined_results, o) ==
    IF o.kind = "text" /\ JsonLoads(o.content.v) # NotJson
    THEN [success |-> TRUE, data |-> JsonLoads(o.content.v), raw_response |-> o.content]
    ELSE [success |-> FALSE, error |-> InvalidJson, data |-> None]

\* rank_places_api: every exception of the call, and the TypeError of
\* json.loads(None), end in the outer handler
rank_places_api(combined_results, o) ==
    IF o.kind \in {"exception", "timeout"}
    THEN [success |-> FALSE, error |-> <<"rank_places_api", "APIError">>, data |-> None]
    ELSE IF o.kind = "no_content"
    THEN [success |-> FALSE, error |-> <<"rank_places_api", "TypeError">>, data |-> None]
    ELSE IF JsonLoads(o.content.v) = NotJson
    THEN [success |-> FALSE, error |-> InvalidJson, raw_response |-> o.content]
    ELSE [success |-> TRUE, data |-> JsonLoads(o.content.v), raw_response |-> o.content]

RankPlaces ==
    /\ pc = "rank_places_api"
    /\ \E o \in RankLlmOutcomes :
        /\ llm' = o
        /\ ranking' = rank_places_api(result.data, o)
    /\ pc' = "ranked"
    /\ calls' = Append(calls, "llm")
    /\ UNCHANGED <<reqVars, apiVars, cacheVars, ctx, fsVars, params, base_params, requests, payload, gmVars,
                   result>>

\* the search results handed to rank_places_api: for each query, two
\* directory records with no or two web-local records
RankedInputs ==
    {[success |-> TRUE,
      data |-> [query |-> q, context |-> create_context_from_location(RunGmLocation, None),
                foursquare |-> [count |-> 2, results |-> RunGmDetails],
                google |-> [count |-> Len(g), results |-> g]]] :
        q \in Queries,
        g \in {<<>>, normalize_results(Dict([local_results |-> RawItems(1, 2)]))}}

InitRanking ==
    /\ pc = "rank_places_api"
    /\ result \in RankedInputs
    /\ query = result.data.query
    /\ location_data = RunGmLocation
    /\ ctx = result.data.context
    /\ llm = <<>>
    /\ fs_params = <<>>
    /\ fs_data = <<>>
    /\ ids = <<>>
    /\ details = <<>>
    /\ fs_out = <<>>
    /\ params = <<>>
    /\ base_params = <<>>
    /\ requests = <<>>
    /\ payload = None
    /\ results = <<>>
    /\ idx = 0
    /\ id_param = <<>>
    /\ review_log = <<>>
    /\ gm_out = <<>>
    /\ ranking = <<>>
    /\ DirectCall
    /\ calls = <<>>

NextRanking == RankPlaces

SpecRanking == InitRanking /\ [][NextRanking]_vars

----------------------------------------------------------------------------
(* validate_coordinates, save_location_cache and get_location_cache        *)
(* (src/src/userLocation.py)                                               *)

\* float(x): a number as it is, a text of a whole number (blanks around it
\* stripped, with or without sign) as that number, ValueError for any other
\* text, TypeError for None
FloatOf(x) ==
    CASE x.t = "num" -> Return(x.v)
      [] x.t = "str" ->
            LET text == Strip(x.v)
                signed == text # <<>> /\ Head(text) \in {"-", "+"}
                digits == IntOf(IF signed THEN Tail(text) ELSE text)
            IN  IF digits.raised # "" THEN digits
                ELSE Return(IF signed /\ Head(text) = "-" THEN 0 - digits.value
                            ELSE digits.value)
      [] OTHER -> Raise("TypeError")

\* a check that looks at the latitude only
validate_coordinates_LatitudeOnly(lat, lon) ==
    LET lat_f == FloatOf(lat) IN
    lat_f.raised = "" /\ -90 <= lat_f.value /\ lat_f.value <= 90

validate_coordinates(lat, lon) ==
    LET lat_f == FloatOf(lat)
        lon_f == FloatOf(lon)
    IN  /\ lat_f.raised = ""
        /\ lon_f.raised = ""
        /\ -90 <= lat_f.value /\ lat_f.value <= 90
        /\ -180 <= lon_f.value /\ lon_f.value <= 180

\* the keys of a location document, in the order they are written, and their
\* characters
LocationKeys == <<"latitude", "longitude", "city">>

LocationKeyChars(k) ==
    CASE k = "latitude" -> <<"l", "a", "t", "i", "t", "u", "d", "e">>
      [] k = "longitude" -> <<"l", "o", "n", "g", "i", "t", "u", "d", "e">>
      [] k = "city" -> <<"c", "i", "t", "y">>

\* json.dumps of a coordinate: null, a number in decimal digits, a string
CoordinateText(x) ==
    CASE x.t = "none" -> <<"n", "u", "l", "l">>
      [] x.t = "num" -> IF x.v < 0 THEN <<"-">> \o Decimal(0 - x.v) ELSE Decimal(x.v)
      [] x.t = "str" -> <<Quote>> \o x.v \o <<Quote>>

\* json.dumps(location_data): the members the document has, in order (the
\* line breaks and blanks of indent=2 are left out)
RECURSIVE LocationMembers(_, _)
LocationMembers(doc, keys) ==
    IF keys = <<>> THEN <<>>
    ELSE LET rest == LocationMembers(doc, Tail(keys)) IN
         IF Head(keys) \notin DOMAIN doc THEN rest
         ELSE <<Quote>> \o LocationKeyChars(Head(keys)) \o <<Quote, ":">>
                  \o CoordinateText(doc[Head(keys)])
                  \o (IF rest = <<>> THEN <<>> ELSE <<",">>) \o rest

LocationText(doc) == <<"{">> \o LocationMembers(doc, LocationKeys) \o <<"}">>

\* the coordinates a location document may carry: none, null, zero, numbers
\* in and out of range, and texts of a number and of no number
Latitudes ==
    {Absent, None, Num(0), Num(12), Num(-90), Num(91), Str(<<"1", "2">>), Str(<<"x">>)}

Longitudes == {Absent, None, Num(0), Num(34), Num(-180), Num(181), Str(<<"x">>)}

LocationOf(lat, lon) ==
    LET members == [latitude |-> lat, longitude |-> lon] IN
    [k \in {j \in DOMAIN members : members[j] # Absent} |-> members[k]]

\* the location documents: every latitude with one longitude, and every
\* longitude with one latitude
LocationDocuments ==
    {LocationOf(lat, Num(34)) : lat \in Latitudes}
        \cup {LocationOf(Num(12), lon) : lon \in Longitudes}
        \cup {LocationOf(Num(0), Num(0)), LocationOf(Num(91), Num(181))}

\* a character that json.loads makes of the escape \ud800 in a request and
\* that encoding="utf-8" cannot write: write_text raises UnicodeEncodeError
LoneSurrogate == "\\ud800"

\* the cities a location document may name: none, two names, and a text with
\* a character that cannot be encoded
Cities == {Absent, Str(<<"A">>), Str(<<"B">>), Str(<<LoneSurrogate>>)}

CityOf(doc, city) == IF city = Absent THEN doc ELSE DictSet(doc, "city", city)

\* location documents with more than the coordinates: one valid location
\* with every city, a latitude given as a text, and two documents that
\* save_location_cache rejects
CityDocuments ==
    {CityOf(LocationOf(Num(12), Num(34)), city) : city \in Cities}
        \cup {CityOf(LocationOf(Str(<<"1", "2">>), Num(-180)), Str(<<"A">>)),
              CityOf(LocationOf(Num(0), Num(34)), Str(<<"B">>)),
              LocationOf(Num(91), Num(34))}

\* the text can be encoded as UTF-8
Encodable(text) == \A i \in 1..Len(text) : text[i] # LoneSurrogate

\* json.loads(text) of the cache file: the document whose text this is,
\* JSONDecodeError (NotJson) if there is none
LoadLocation(text) ==
    IF \E doc \in LocationDocuments \cup CityDocuments : LocationText(doc) = text
    THEN CHOOSE doc \in LocationDocuments \cup CityDocuments : LocationText(doc) = text
    ELSE NotJson

\* the checks of save_location_cache before it writes
Saveable(doc) ==
    /\ Truthy(Get(doc, "latitude"))
    /\ Truthy(Get(doc, "longitude"))
    /\ validate_coordinates(doc.latitude, doc.longitude)

\* save_location_cache, run without interruption: what it returns and the
\* file it leaves. write_text opens the file for writing, which cuts it to
\* nothing, and then encodes the text: a text that cannot be encoded raises
\* there, the file stays empty and the function returns False
save_location_cache(file, doc) ==
    IF ~Saveable(doc) THEN [returned |-> FALSE, file |-> file]
    ELSE IF ~Encodable(LocationText(doc)) THEN [returned |-> FALSE, file |-> <<>>]
    ELSE [returned |-> TRUE, file |-> LocationText(doc)]

\* clear_location_cache: the file is unlinked if it exists
clear_location_cache(file) == [returned |-> TRUE, file |-> NoFile]

\* get_location_cache: None without a file, for a file that is no JSON
\* document, and for a document whose coordinates are not valid
get_location_cache(file) ==
    IF file = NoFile THEN None
    ELSE LET loaded == LoadLocation(file) IN
         IF loaded = NotJson THEN None
         ELSE IF validate_coordinates(Get(loaded, "latitude"), Get(loaded, "longitude"))
         THEN Dict(loaded)
         ELSE None

\* write(data) on a file opened at offset 0: the data over what the file holds
WriteOver(file, data) ==
    [i \in 1..(IF Len(file) > Len(data) THEN Len(file) ELSE Len(data)) |->
        IF i <= Len(data) THEN data[i] ELSE file[i]]

\* a call of save_location_cache that no other thread interrupts
SaveLocation ==
    /\ Len(cache_log) < MaxCacheOps
    /\ \E doc \in LocationDocuments :
        LET saved == save_location_cache(cache, doc) IN
        /\ cache' = saved.file
        /\ cache_log' = Append(cache_log,
                               [op |-> "save", doc |-> doc, returned |-> saved.returned,
                                before |-> cache, after |-> saved.file])
    /\ UNCHANGED <<pc, reqVars, apiVars, proc, ranking, ctx, llm, fsVars, params, base_params,
                   requests, payload, gmVars, result, calls>>

\* save_location_cache up to `CACHE_FILE.write_text`: a rejected document
\* returns False; for an accepted one the file is opened for writing, which
\* creates it or cuts it to nothing
SaveOpen(p) ==
    /\ Len(cache_log) < MaxCacheOps
    /\ proc[p] = Idle
    /\ \E doc \in LocationDocuments :
        IF Saveable(doc)
        THEN /\ cache' = <<>>
             /\ proc' = [proc EXCEPT ![p] = [pc |-> "write", doc |-> doc]]
             /\ UNCHANGED cache_log
        ELSE /\ cache_log' = Append(cache_log,
                                    [op |-> "save", doc |-> doc, returned |-> FALSE,
                                     before |-> cache, after |-> cache])
             /\ UNCHANGED <<cache, proc>>
    /\ UNCHANGED <<pc, reqVars, apiVars, ranking, ctx, llm, fsVars, params, base_params,
                   requests, payload, gmVars, result, calls>>

\* the rest of write_text: the text is written from the start of the file,
\* the file is closed, and save_location_cache returns True
SaveWrite(p) ==
    /\ proc[p].pc = "write"
    /\ cache' = WriteOver(cache, LocationText(proc[p].doc))
    /\ proc' = [proc EXCEPT ![p] = Idle]
    /\ cache_log' = Append(cache_log,
                           [op |-> "save", doc |-> proc[p].doc, returned |-> TRUE,
                            before |-> cache, after |-> cache'])
    /\ UNCHANGED <<pc, reqVars, apiVars, ranking, ctx, llm, fsVars, params, base_params,
                   requests, payload, gmVars, result, calls>>

\* a call of get_location_cache; busy tells whether a save was in progress
GetLocation ==
    /\ Len(cache_log) < MaxCacheOps
    /\ cache_log' = Append(cache_log,
                           [op |-> "get", saw |-> cache, got |-> get_location_cache(cache),
                            busy |-> \E p \in Procs : proc[p] # Idle])
    /\ UNCHANGED <<pc, reqVars, apiVars, cache, proc, ranking, ctx, llm, fsVars, params,
                   base_params, requests, payload, gmVars, result, calls>>

\* a call of save_location_cache with a document that may name a city
SaveCity ==
    /\ Len(cache_log) < MaxCacheOps
    /\ \E doc \in CityDocuments :
        LET saved == save_location_cache(cache, doc) IN
        /\ cache' = saved.file
        /\ cache_log' = Append(cache_log,
                               [op |-> "save", doc |-> doc, returned |-> saved.returned,
                                before |-> cache, after |-> saved.file])
    /\ UNCHANGED <<pc, reqVars, apiVars, proc, ranking, ctx, llm, fsVars, params, base_params,
                   requests, payload, gmVars, result, calls>>

\* a call of clear_location_cache
ClearLocation ==
    /\ Len(cache_log) < MaxCacheOps
    /\ LET cleared == clear_location_cache(cache) IN
        /\ cache' = cleared.file
        /\ cache_log' = Append(cache_log,
                               [op |-> "clear", returned |-> cleared.returned,
                                before |-> cache, after |-> cleared.file])
    /\ UNCHANGED <<pc, reqVars, apiVars, proc, ranking, ctx, llm, fsVars, params, base_params,
                   requests, payload, gmVars, result, calls>>

\* the cache of a server that has handled no request yet
InitCache ==
    /\ pc = "serving"
    /\ query = None
    /\ location_data = <<>>
    /\ ctx = <<>>
    /\ llm = <<>>
    /\ fs_params = <<>>
    /\ fs_data = <<>>
    /\ ids = <<>>
    /\ details = <<>>
    /\ fs_out = <<>>
    /\ params = <<>>
    /\ base_params = <<>>
    /\ requests = <<>>
    /\ payload = None
    /\ results = <<>>
    /\ idx = 0
    /\ id_param = <<>>
    /\ review_log = <<>>
    /\ gm_out = <<>>
    /\ result = <<>>
    /\ ranking = <<>>
    /\ calls = <<>>
    /\ endpoint = ""
    /\ request_json = None
    /\ response = <<>>
    /\ cache = NoFile
    /\ proc = [p \in Procs |-> Idle]
    /\ cache_log = <<>>

\* the calls of one thread, one after the other
NextCacheSequential ==
    \/ SaveLocation
    \/ GetLocation

SpecCacheSequential == InitCache /\ [][NextCacheSequential]_vars

\* saves, clears and gets of one thread, one after the other
NextCacheClear ==
    \/ SaveCity
    \/ ClearLocation
    \/ GetLocation

SpecCacheClear == InitCache /\ [][NextCacheClear]_vars

\* the calls of the server's threads, interleaved
NextCacheConcurrent ==
    \/ \E p \in Procs : SaveOpen(p)
    \/ \E p \in Procs : SaveWrite(p)
    \/ GetLocation

SpecCacheConcurrent == InitCache /\ [][NextCacheConcurrent]_vars

----------------------------------------------------------------------------
(* The endpoints /api/search and /api/search/simple (src/api_server.py)    *)

\* api_error_response: the tuple of the envelope and the status code
api_error_response(message, status_code, error_code, more) ==
    LET envelope == [success |-> FALSE, error |-> message]
        coded == IF error_code # "" THEN DictSet(envelope, "error_code", error_code)
                 ELSE envelope
    IN  [t |-> "tuple",
         v |-> <<IF more # <<>> THEN DictSet(coded, "details", more) ELSE coded,
                 status_code>>]

\* api_success_response
api_success_response(data, message, meta) ==
    LET envelope == [success |-> TRUE, data |-> data]
        said == IF message # "" THEN DictSet(envelope, "message", message) ELSE envelope
    IN  Dict(IF meta # <<>> THEN DictSet(said, "meta", meta) ELSE said)

\* a jsonify that unpacks the tuple of api_error_response into body and status
jsonify_WithStatus(x) ==
    IF x.t = "tuple"
    THEN [status |-> x.v[2], json |-> [t |-> "object", v |-> x.v[1]]]
    ELSE [status |-> 200, json |-> [t |-> "object", v |-> x.v]]

\* jsonify(x) returned by a view: a response with status 200 whose body is
\* the JSON text of x, an array for a tuple and an object for a dict
jsonify(x) ==
    [status |-> 200,
     json |-> IF x.t = "tuple" THEN [t |-> "array", v |-> x.v] ELSE [t |-> "object", v |-> x.v]]

\* the view returns: the request is answered
Respond(r) ==
    /\ response' = r
    /\ pc' = "responded"

\* the query and the location of a request body
QueryInputs ==
    {Absent, None, Str(<<>>), Str(<<" ">>), Str(<<"p">>), Str(<<" ", "p">>)}

RequestLocations ==
    {Absent, None, EmptyDict} \cup {Dict(doc) : doc \in LocationDocuments}

\* request.json: nothing, {}, and objects with or without query and location
RequestBodies ==
    {None, EmptyDict}
        \cup {Document([query |-> q, location |-> l]) :
                 q \in QueryInputs, l \in RequestLocations}

\* api_search up to the call of search_places_api: the checks of the request,
\* save_location_cache(location), and the call with the stripped query
ApiSearch ==
    /\ pc = "api_search"
    /\ LET data == request_json
           q == Get(data.v, "query")
           location == Get(data.v, "location")
       IN  IF ~Truthy(data)
           THEN /\ Respond(jsonify(api_error_response("No request data provided", 400,
                                                      "MISSING_DATA", <<>>)))
                /\ UNCHANGED <<reqVars, cache>>
           ELSE IF ~Truthy(q) \/ Strip(q.v) = <<>>
           THEN /\ Respond(jsonify(api_error_response("Search query is required", 400,
                                                      "MISSING_QUERY", <<>>)))
                /\ UNCHANGED <<reqVars, cache>>
           ELSE IF ~Truthy(location)
           THEN /\ Respond(jsonify(api_error_response("Location data is required", 400,
                                                      "MISSING_LOCATION", <<>>)))
                /\ UNCHANGED <<reqVars, cache>>
           ELSE IF ~validate_coordinates(Get(location.v, "latitude"),
                                         Get(location.v, "longitude"))
           THEN /\ Respond(jsonify(api_error_response(
                                      "Valid location coordinates are required", 400,
                                      "INVALID_COORDINATES", <<>>)))
                /\ UNCHANGED <<reqVars, cache>>
           ELSE /\ cache' = save_location_cache(cache, location.v).file
                /\ query' = Str(Strip(q.v))
                /\ location_data' = location.v
                /\ pc' = "create_context_from_location"
                /\ UNCHANGED response
    /\ UNCHANGED <<endpoint, request_json, proc, cache_log, ranking, ctx, llm, fsVars, params,
                   base_params, requests, payload, gmVars, result, calls>>

\* api_search after search_places_api returned: a failure is answered, the
\* combined results go to rank_places_api
ApiSearchResults ==
    /\ pc = "done"
    /\ endpoint = "/api/search"
    /\ IF ~result.success
       THEN Respond(jsonify(api_error_response(<<"Search failed", result.error>>, 500,
                                               "SEARCH_ERROR", [stage |-> "search"])))
       ELSE pc' = "rank_places_api" /\ UNCHANGED response
    /\ UNCHANGED <<reqVars, endpoint, request_json, cacheVars, ranking, ctx, llm, fsVars,
                   params, base_params, requests, payload, gmVars, result, calls>>

\* len(ranking_results['data'].get('ranked_places', [])): AttributeError for
\* data that is no object, TypeError for ranked_places that has no length
TotalRanked(data) ==
    IF data.t # "dict" THEN Raise("AttributeError")
    ELSE IF "ranked_places" \notin DOMAIN data.v THEN Return(0)
    ELSE IF data.v.ranked_places.t \in {"list", "str"}
    THEN Return(Len(data.v.ranked_places.v))
    ELSE IF data.v.ranked_places.t = "dict"
    THEN Return(Cardinality(DOMAIN data.v.ranked_places.v))
    ELSE Raise("TypeError")

\* api_search after rank_places_api returned
ApiSearchRanked ==
    /\ pc = "ranked"
    /\ endpoint = "/api/search"
    /\ LET counts == [foursquare_count |-> result.data.foursquare.count,
                      google_count |-> result.data.google.count]
           total == TotalRanked(ranking.data)
       IN  IF ~ranking.success
           THEN Respond(jsonify(api_error_response(
                           <<"Ranking failed", Get(ranking, "error")>>, 500, "RANKING_ERROR",
                           [stage |-> "ranking",
                            search_summary |-> DictSet(counts, "query", query)])))
           ELSE IF total.raised # ""
           THEN Respond(jsonify(api_error_response(
                           <<"Unexpected error", total.raised>>, 500, "SERVER_ERROR",
                           [stage |-> "server"])))
           ELSE Respond(jsonify(api_success_response(
                           [query |-> query, location |-> location_data,
                            search_results |-> result.data, ranked_results |-> ranking.data],
                           "", DictSet(counts, "total_ranked", total.value))))
    /\ UNCHANGED <<reqVars, endpoint, request_json, cacheVars, ranking, ctx, llm, fsVars,
                   params, base_params, requests, payload, gmVars, result, calls>>

\* api_search_simple up to the call of search_places_api
ApiSearchSimple ==
    /\ pc = "api_search_simple"
    /\ LET data == request_json
           q == Get(data.v, "query")
           location == Get(data.v, "location")
       IN  IF data = None
           THEN /\ Respond(jsonify(api_error_response("AttributeError", 500, "SERVER_ERROR",
                                                      <<>>)))
                /\ UNCHANGED reqVars
           ELSE IF ~Truthy(q)
           THEN /\ Respond(jsonify(api_error_response("Query required", 400, "MISSING_QUERY",
                                                      <<>>)))
                /\ UNCHANGED reqVars
           ELSE IF ~Truthy(location)
                   \/ ~validate_coordinates(Get(location.v, "latitude"),
                                            Get(location.v, "longitude"))
           THEN /\ Respond(jsonify(api_error_response("Valid location required", 400,
                                                      "INVALID_LOCATION", <<>>)))
                /\ UNCHANGED reqVars
           ELSE /\ query' = q
                /\ location_data' = location.v
                /\ pc' = "create_context_from_location"
                /\ UNCHANGED response
    /\ UNCHANGED <<endpoint, request_json, cacheVars, ranking, ctx, llm, fsVars, params,
                   base_params, requests, payload, gmVars, result, calls>>

\* api_search_simple after search_places_api returned: `jsonify(search_results)`
ApiSimpleRespond ==
    /\ pc = "done"
    /\ endpoint = "/api/search/simple"
    /\ Respond(jsonify(Dict(result)))
    /\ UNCHANGED <<reqVars, endpoint, request_json, cacheVars, ranking, ctx, llm, fsVars,
                   params, base_params, requests, payload, gmVars, result, calls>>

\* the state of a request that has not entered search_places_api
NoSearchYet ==
    /\ ctx = <<>>
    /\ llm = <<>>
    /\ fs_params = <<>>
    /\ fs_data = <<>>
    /\ ids = <<>>
    /\ details = <<>>
    /\ fs_out = <<>>
    /\ params = <<>>
    /\ base_params = <<>>
    /\ requests = <<>>
    /\ payload = None
    /\ results = <<>>
    /\ idx = 0
    /\ id_param = <<>>
    /\ review_log = <<>>
    /\ gm_out = <<>>
    /\ ranking = <<>>
    /\ response = <<>>
    /\ proc = [p \in Procs |-> Idle]
    /\ cache_log = <<>>

\* a request arrives at one of the two endpoints
InitRequest ==
    /\ endpoint \in {"/api/search", "/api/search/simple"}
    /\ pc = IF endpoint = "/api/search" THEN "api_search" ELSE "api_search_simple"
    /\ request_json \in RequestBodies
    /\ query = None
    /\ location_data = <<>>
    /\ result = <<>>
    /\ calls = <<>>
    /\ cache = NoFile
    /\ NoSearchYet

\* a request to /api/search whose search_places_api has returned the
\* combined results: the query is the stripped one, the location has been
\* saved, and the calls of the search have been made
InitSearched ==
    /\ endpoint = "/api/search"
    /\ pc = "done"
    /\ result \in RankedInputs
    /\ query = result.data.query
    /\ query.v # <<>> /\ Strip(query.v) = query.v
    /\ location_data = RunGmLocation
    /\ cache = save_location_cache(NoFile, location_data).file
    /\ calls = <<"nominatim", "llm", "fsq_search", "fsq_detail", "fsq_detail", "llm",
                 "serp_local">>
    /\ request_json = Document([query |-> query, location |-> Dict(location_data)])
    /\ NoSearchYet

\* the endpoints around search_places_api: a request from its arrival to the
\* end of run_fs, and from the combined results to the response
InitApi == InitRequest \/ InitSearched

NextApi ==
    \/ ApiSearch
    \/ ApiSearchSimple
    \/ CreateContext
    \/ GenerateFsParams
    \/ SearchFoursquare
    \/ FetchPlaceDetails
    \/ GenerateSerpParams
    \/ ApiSearchResults
    \/ RankPlaces
    \/ ApiSearchRanked
    \/ ApiSimpleRespond

SpecApi == InitApi /\ [][NextApi]_vars

----------------------------------------------------------------------------
(* Properties of fetch_local_results *)

\* C1: a second or third request is issued only when the attempt right before
\* it failed with HTTP status 400; any other failure of an attempt ends the
\* ladder.
C1_EscalatesOnlyOn400 ==
    \A i \in 2..Len(requests) : requests[i - 1].outcome.kind = "http_400"

\* C2: one call of fetch_local_results issues at most 3 requests, for every
\* parameter set and every combination of provider outcomes.
C2_AtMostThreeRequests == Len(requests) <= 3

\* three requests were sent, all failed, and the ladder returned
C2_Witness ==
    /\ pc = "returned"
    /\ Len(requests) = 3
    /\ \A i \in 1..3 : requests[i].outcome.kind # "ok"

\* C3: as soon as an attempt gets a 2xx response with a JSON body (any body,
\* the empty object included), fetch_local_results returns that body and
\* issues no further request.
C3_ReturnsFirstSuccess ==
    \A i \in 1..Len(requests) :
        requests[i].outcome.kind = "ok" =>
            /\ i = Len(requests)
            /\ pc = "returned"
            /\ payload = requests[i].outcome.body

----------------------------------------------------------------------------
(* Properties of run_gm around the ladder *)

LadderPcs == {"fetch_local_results", "initial", "aggressive_location", "no_location"}

\* the non-empty comma-separated segments of a location, stripped
Segments(loc) == NonEmpty(MapSeq(Strip, Split(loc.v, ",")))

\* the initial attempt, sent with a location of more than one segment, was
\* answered with HTTP 400
Rejected400 ==
    /\ Len(requests) >= 1
    /\ requests[1].outcome.kind = "http_400"
    /\ Truthy(Get(requests[1].p, "location"))
    /\ Len(Segments(requests[1].p["location"])) > 1

\* the provider accepted the request: a 2xx answer that lists local results
Accepted(o) ==
    /\ o.kind = "ok"
    /\ "local_results" \in DOMAIN o.body.v
    /\ o.body.v["local_results"] # <<>>

\* C4: when the initial attempt fails with HTTP 400 and the location has more
\* than one comma-separated segment, the next attempt is sent with the first
\* segment alone as location and all other parameters unchanged; when the
\* provider accepts that attempt, its payload is what fetch_local_results
\* returns, no third attempt is made, and run_gm has at least one record.
C4_AggressiveRetry ==
    Rejected400 =>
        /\ Len(requests) = 1 => pc = "aggressive_location"
        /\ Len(requests) >= 2 =>
             /\ requests[2].p =
                    DictSet(requests[1].p, "location",
                            Str(Segments(requests[1].p["location"])[1]))
             /\ Accepted(requests[2].outcome) =>
                  /\ Len(requests) = 2
                  /\ pc \notin LadderPcs
                  /\ payload = requests[2].outcome.body
                  /\ pc # "returned" => results # <<>>
                  /\ gm_out # <<>> => gm_out.count > 0

\* the 400 was followed by an accepted first-segment attempt, and
\* search_places_api returned its records
C4_Witness ==
    /\ Rejected400
    /\ Len(requests) = 2
    /\ Accepted(requests[2].outcome)
    /\ pc = "done"
    /\ result.success
    /\ result.data.google.count > 0

\* every attempt of the ladder failed
AllAttemptsFailed ==
    /\ requests # <<>>
    /\ \A i \in 1..Len(requests) : requests[i].outcome.kind \in FailureKinds

\* C5: when every attempt of the ladder fails, fetch_local_results returns
\* the empty payload, run_gm returns count 0 with no results and sends no
\* review or lookup request, and search_places_api (whose directory side
\* succeeded) still reports success.
C5_AllFailGivesEmpty ==
    (AllAttemptsFailed /\ pc \notin LadderPcs) =>
        /\ payload = EmptyDict
        /\ pc \in {"returned", "combine", "done"}
        /\ \A i \in 1..Len(calls) : calls[i] \notin {"serp_maps", "serp_reviews"}
        /\ pc \in {"combine", "done"} => gm_out.count = 0 /\ gm_out.results = <<>>
        /\ pc = "done" => result.success /\ result.data.google.count = 0

\* three attempts failed and search_places_api returned success
C5_Witness ==
    /\ AllAttemptsFailed
    /\ Len(requests) = 3
    /\ pc = "done"
    /\ result.success
    /\ result.data.google.count = 0
    /\ result.data.foursquare.count = 2

----------------------------------------------------------------------------
(* Properties of run_fs and of the planners *)

\* search_places_api returned a failure
Failed == pc = "done" /\ ~result.success

\* ... for an exception raised in one of the named functions
FailedIn(functions) == Failed /\ result.error[1] \in functions

\* C6: a detail fetch that fails drops that one record only: the failure of
\* a detail call does not make search_places_api end in failure.
C6_DetailFailureDropsRecord == ~FailedIn({"fetch_place_details"})

\* the planner whose LLM call is recorded in llm
AfterFsPlanner == llm # <<>> /\ fs_out = <<>>
AfterGmPlanner == llm # <<>> /\ fs_out # <<>>

Relevance == Str(<<"R", "E", "L", "E", "V", "A", "N", "C", "E">>)

\* C7: when the planner's LLM call fails (an exception, a timeout, an answer
\* without content), generate_fs_params and generate_serp_params do not
\* propagate the failure: they return the default parameters, with the
\* user's text as query, the context's coordinates as anchor, and the default
\* limit and sort.
C7_LlmFailureGivesDefaults ==
    (llm # <<>> /\ llm \in LlmFailures) =>
        \/ /\ AfterFsPlanner
           /\ pc = "search_foursquare"
           /\ Get(fs_params, "query") = query
           /\ Get(fs_params, "ll") = ctx.ll
           /\ Get(fs_params, "limit") = Num(5)
           /\ Get(fs_params, "sort") = Relevance
        \/ /\ AfterGmPlanner
           /\ pc = "fetch_local_results"
           /\ Get(params, "q") = query
           /\ Get(params, "engine") = GoogleLocal
           /\ Get(params, "num") = Num(10)

\* C8: when the LLM's text is no usable parameter object (no valid JSON, or
\* JSON that is not an object), generate_fs_params returns without raising,
\* with the user's text as query, the context's coordinates as ll, and a
\* limit of at most 5.
C8_UnusableTextGivesDefaults ==
    (AfterFsPlanner /\ llm.kind = "text" /\ llm.content \in {NotJson} \cup NonObjects) =>
        /\ pc = "search_foursquare"
        /\ Get(fs_params, "query") = query
        /\ Get(fs_params, "ll") = ctx.ll
        /\ IsNumber(Get(fs_params, "limit"))
        /\ Get(fs_params, "limit").v <= 5

\* C9: for every limit the parsed LLM output may carry (absent, null, zero,
\* negative, above 5, a string), generate_fs_params returns parameters whose
\* limit is a number between 1 and 5.
C9_LimitBetween1And5 ==
    (AfterFsPlanner /\ llm.kind = "text" /\ llm.content.t = "dict") =>
        /\ pc = "search_foursquare"
        /\ IsNumber(Get(fs_params, "limit"))
        /\ Get(fs_params, "limit").v >= 1
        /\ Get(fs_params, "limit").v <= 5

\* the document carries key k with a value that is neither null nor empty
Contains(doc, k) == k \in DOMAIN doc /\ doc[k].t # "none" /\ doc[k].v # <<>>

\* the planner's output as parsed, when generate_fs_params returned
ParsedFsOutput == FsParsed(query, ctx, llm.content).v

\* C10: when the parsed planner output contains neither ll nor near (absent,
\* null or empty), the returned parameters carry ll equal to the context's
\* coordinate string; when it contains either, ll and near are returned as
\* the planner gave them.
C10_LlInjectedWhenNoAnchor ==
    (AfterFsPlanner /\ llm.kind = "text" /\ pc = "search_foursquare") =>
        IF ~Contains(ParsedFsOutput, "ll") /\ ~Contains(ParsedFsOutput, "near")
        THEN Get(fs_params, "ll") = ctx.ll
        ELSE \A k \in {"ll", "near"} :
                /\ k \in DOMAIN fs_params <=> k \in DOMAIN ParsedFsOutput
                /\ k \in DOMAIN fs_params => fs_params[k] = ParsedFsOutput[k]

\* an output that names no ll and no near got the coordinates the frontend sent
C10_Witness ==
    /\ AfterFsPlanner
    /\ llm.kind = "text"
    /\ llm.content.t = "dict"
    /\ pc = "search_foursquare"
    /\ "ll" \notin DOMAIN ParsedFsOutput
    /\ ~Contains(ParsedFsOutput, "near")
    /\ Get(fs_params, "ll") = ctx.ll
    /\ ctx.ll # DEFAULT_LL

----------------------------------------------------------------------------
(* Properties of fetch_reviews *)

\* the record whose fetch_reviews call returned last (0: none yet)
LastFinished ==
    IF pc \in {"add_distance", "fetch_reviews"} THEN idx - 1
    ELSE IF pc = "combine" \/ (pc = "done" /\ result.success) THEN Len(results)
    ELSE 0

\* the positions of the requests of one kind in the log
LogOf(call) == {j \in 1..Len(review_log) : review_log[j].call = call}

\* what run_gm stores for the reviews fetch_reviews returned
Stored(reviews) ==
    IF ReviewSnippets(reviews, 3).value = <<>> THEN None
    ELSE List(ReviewSnippets(reviews, 3).value)

\* C11: whatever the lookup and the review listing answer for a record (a
\* network error, a timeout, a non-2xx status, a body that is no JSON, a JSON
\* body of unexpected shape), fetch_reviews does not raise and
\* search_places_api does not fail.
C11_ReviewsNeverFail == ~FailedIn({"fetch_reviews", "_resolve_data_id_via_maps"})

\* C12: fetch_reviews returns at most 3 snippets to run_gm, however many
\* reviews the provider lists; and for a record without identifier whose
\* lookup resolved nothing (or had nothing to look up) it returns no reviews,
\* without raising and without a review listing request.
C12_CapAndMissingIdentifier ==
    /\ \A i \in 1..Len(results) :
          results[i].recent_reviews.t = "list" => Len(results[i].recent_reviews.v) <= 3
    /\ (review_log # <<>> /\ review_log[1].call = "serp_maps"
            /\ review_log[1].got = Return(None)) =>
          /\ Len(review_log) = 1
          /\ ~Failed
          /\ LastFinished = review_log[1].rec
          /\ results[review_log[1].rec].recent_reviews = None
    /\ (LastFinished > 0 /\ ~Truthy(results[LastFinished].google_place_id)
            /\ LookupQuery(results[LastFinished]) = <<>>) =>
          /\ review_log = <<>>
          /\ results[LastFinished].recent_reviews = None

\* the first record got the 3 snippets of a longer listing, and the second,
\* without identifier, got none after a lookup that resolved nothing
C12_Witness ==
    /\ pc = "done"
    /\ result.success
    /\ Len(results) = 2
    /\ results[1].recent_reviews.t = "list"
    /\ Len(results[1].recent_reviews.v) = 3
    /\ ~Truthy(results[2].google_place_id)
    /\ Len(review_log) = 1
    /\ review_log[1].call = "serp_maps" /\ review_log[1].rec = 2
    /\ review_log[1].p = LookupQuery(results[2])
    /\ review_log[1].got = Return(None)
    /\ result.data.google.results[2].recent_reviews = None

\* C13: for one record there are at most 2 review listing requests and at
\* most 2 lookups; a second review request comes only after the first gave no
\* reviews and a lookup made after it resolved an identifier, which it then
\* carries; and when it is made, its reviews are what the record gets.
C13_RetryAtMostOnce ==
    /\ Cardinality(LogOf("serp_reviews")) <= 2
    /\ Cardinality(LogOf("serp_maps")) <= 2
    /\ \A j \in LogOf("serp_reviews") :
          (\E i \in LogOf("serp_reviews") : i < j) =>
             LET first == CHOOSE i \in LogOf("serp_reviews") : i < j IN
             /\ review_log[first].got = Return(<<>>)
             /\ j = first + 2
             /\ review_log[j - 1].call = "serp_maps"
             /\ Truthy(review_log[j - 1].got.value)
             /\ review_log[j].p = _format_google_place_id(review_log[j - 1].got.value)
             /\ LastFinished = review_log[j].rec =>
                   results[review_log[j].rec].recent_reviews = Stored(review_log[j].got.value)

\* a record with identifier whose first listing was empty got the reviews of
\* the retry
C13_Witness ==
    /\ Len(review_log) = 3
    /\ review_log[1].call = "serp_reviews"
    /\ review_log[1].got = Return(<<>>)
    /\ review_log[2].call = "serp_maps"
    /\ review_log[3].call = "serp_reviews"
    /\ LastFinished = review_log[3].rec
    /\ results[review_log[3].rec].recent_reviews.t = "list"

\* C14: for a record that carries a google_place_id, the first request of
\* fetch_reviews is the review listing, with no lookup before it, and it
\* carries that identifier under exactly one name: data_id when it is a str
\* starting with "0x", place_id otherwise.
C14_CarriedIdentifierUsedDirectly ==
    review_log # <<>> =>
        LET gid == results[review_log[1].rec].google_place_id
            sent == review_log[1]
        IN  Truthy(gid) =>
              /\ sent.call = "serp_reviews"
              /\ IF gid.t = "str" /\ Len(gid.v) >= 2 /\ SubSeq(gid.v, 1, 2) = <<"0", "x">>
                 THEN DOMAIN sent.p = {"data_id"} /\ sent.p["data_id"] = gid
                 ELSE DOMAIN sent.p = {"place_id"} /\ sent.p["place_id"].t = "str"
                      /\ sent.p["place_id"] = StrOf(gid)

\* one record with a hex identifier and one with a numeric one, each sent
\* under its name
C14_Witness ==
    /\ Len(results) = 2
    /\ results[1].google_place_id.t = "str"
    /\ StartsWith0x(results[1].google_place_id.v)
    /\ results[2].google_place_id.t = "num"
    /\ review_log # <<>>
    /\ review_log[1].rec = 2
    /\ review_log[1].call = "serp_reviews"
    /\ DOMAIN review_log[1].p = {"place_id"}

----------------------------------------------------------------------------
(* Properties of rank_places_api *)

\* C15: rank_places_api always returns: for an LLM text that is no valid
\* JSON, success false with raw_response equal to that text; for a failed LLM
\* call, success false with an error.
C15_RankingFailureIsReported ==
    pc = "ranked" =>
        /\ "success" \in DOMAIN ranking
        /\ (llm.kind = "text" /\ llm.content.v \in GarbageTexts) =>
              /\ ~ranking.success
              /\ "raw_response" \in DOMAIN ranking
              /\ ranking.raw_response = llm.content
        /\ llm \in LlmFailures =>
              /\ ~ranking.success
              /\ "error" \in DOMAIN ranking
              /\ ranking.error # <<>>

\* prose in place of JSON was reported as a failure, with the prose attached
C15_Witness ==
    /\ pc = "ranked"
    /\ llm.kind = "text"
    /\ llm.content = Str(<<"o", "o", "p", "s">>)
    /\ ~ranking.success
    /\ ranking.raw_response = Str(<<"o", "o", "p", "s">>)

\* a JSON object with a query_analysis block and a ranked_places list
Conformant(x) ==
    /\ x.t = "dict"
    /\ "query_analysis" \in DOMAIN x.v
    /\ x.v["query_analysis"].t = "dict"
    /\ "ranked_places" \in DOMAIN x.v
    /\ x.v["ranked_places"].t = "list"

\* C16: rank_places_api reports success only for an answer that is one JSON
\* object with a query_analysis block and a ranked_places list; a list, a
\* number, an object without ranked_places are reported as failures.
C16_SuccessOnlyIfConformant ==
    (pc = "ranked" /\ ranking.success) => Conformant(ranking.data)

\* C17: in a successful result whose data carries a ranked_places list of
\* length n, the rank values are exactly 1..n, each once.
C17_RanksContiguous ==
    (pc = "ranked" /\ ranking.success /\ ranking.data.t = "dict"
        /\ "ranked_places" \in DOMAIN ranking.data.v
        /\ ranking.data.v["ranked_places"].t = "list") =>
        LET places == ranking.data.v["ranked_places"].v IN
        /\ \A i \in 1..Len(places) : places[i].v["rank"].v \in 1..Len(places)
        /\ \A i, j \in 1..Len(places) :
              places[i].v["rank"] = places[j].v["rank"] => i = j

----------------------------------------------------------------------------
(* Properties of the records' distance *)

\* the records run_fs and run_gm have returned
Returned ==
    (IF fs_out = <<>> THEN <<>> ELSE fs_out.results)
        \o (IF gm_out = <<>> THEN <<>> ELSE gm_out.results)

\* C18: every record's distance_km is absent or a number that is not
\* negative; it is absent whenever the request's or the record's coordinates
\* are missing or not numbers; and computing it never raises, so that
\* search_places_api never fails for it.
C18_DistanceAbsentOrNonNegative ==
    /\ ~FailedIn({"_haversine_km"})
    /\ \A i \in 1..Len(Returned) :
          LET rec == Returned[i] IN
          /\ "distance_km" \in DOMAIN rec
          /\ rec.distance_km = None
                \/ (IsNumber(rec.distance_km) /\ rec.distance_km.v >= 0)
          /\ ~(IsNumber(Get(ctx, "latitude")) /\ IsNumber(Get(ctx, "longitude"))
                 /\ IsNumber(Get(rec, "latitude")) /\ IsNumber(Get(rec, "longitude")))
                => rec.distance_km = None

----------------------------------------------------------------------------
(* Properties of the results' counts *)

\* search_places_api returned the combined results
Succeeded == pc = "done" /\ result.success

\* C19: in every result returned by run_fs and by run_gm, and in both
\* provider blocks of the combined results of search_places_api, count is
\* the length of the results list.
C19_CountIsLength ==
    /\ fs_out # <<>> => fs_out.count = Len(fs_out.results)
    /\ gm_out # <<>> => gm_out.count = Len(gm_out.results)
    /\ Succeeded =>
          /\ result.data.foursquare.count = Len(result.data.foursquare.results)
          /\ result.data.google.count = Len(result.data.google.results)

\* combined results with seven web-local records and some directory records
C19_Witness ==
    /\ Succeeded
    /\ result.data.foursquare.count > 0
    /\ result.data.google.count = 7

\* the identifiers of the directory provider's answer, in its order
Identifiers ==
    LET HasId(place) == Truthy(Get(place, "fsq_place_id"))
        kept == SelectSeq(fs_data, HasId)
    IN  [i \in 1..Len(kept) |-> kept[i].fsq_place_id]

\* the raw items of the web-local payload, in its order
RawLocalItems ==
    IF payload.t = "dict" /\ "local_results" \in DOMAIN payload.v
    THEN payload.v["local_results"] ELSE <<>>

\* record rec was made from the raw item
MadeFrom(rec, item) ==
    \A k \in DOMAIN NormalizeItem(item) \ {"recent_reviews"} : rec[k] = NormalizeItem(item)[k]

\* C20: when the directory search returned n identifiers and the web-local
\* payload has m raw items, the combined results have foursquare.count =
\* min(n, 5) and google.count = min(m, 7), and the records kept are those of
\* the first identifiers and of the first raw items, in the providers' order.
C20_CapsKeepTheFirst ==
    Succeeded =>
        LET fs == result.data.foursquare
            gm == result.data.google
            n == Len(Identifiers)
            m == Len(RawLocalItems)
        IN  /\ fs.count = (IF n < 5 THEN n ELSE 5)
            /\ gm.count = (IF m < 7 THEN m ELSE 7)
            /\ Len(fs.results) = fs.count
            /\ Len(gm.results) = gm.count
            /\ \A i \in 1..Len(fs.results) : fs.results[i].fsq_place_id = Identifiers[i]
            /\ \A i \in 1..Len(gm.results) : MadeFrom(gm.results[i], RawLocalItems[i])

\* both providers returned more than is kept
C20_Witness ==
    /\ Succeeded
    /\ Len(Identifiers) > 5
    /\ Len(RawLocalItems) > 7
    /\ result.data.foursquare.count = 5
    /\ result.data.google.count = 7

----------------------------------------------------------------------------
(* Properties of the location cache *)

\* the document has both coordinates, numbers within -90..90 and -180..180
InRange(doc) ==
    /\ IsNumber(Get(doc, "latitude")) /\ IsNumber(Get(doc, "longitude"))
    /\ -90 <= doc.latitude.v /\ doc.latitude.v <= 90
    /\ -180 <= doc.longitude.v /\ doc.longitude.v <= 180

\* the i-th logged call is a save of doc that the next logged call, a get,
\* follows
SaveThenGet(i) ==
    /\ i < Len(cache_log)
    /\ cache_log[i].op = "save"
    /\ cache_log[i + 1].op = "get"

\* C21: for every location document whose latitude is in -90..90 and whose
\* longitude is in -180..180, zero included, save_location_cache returns True
\* and a get_location_cache that follows returns a document with the same
\* latitude and longitude.
C21_SaveThenGetRoundTrip ==
    \A i \in 1..Len(cache_log) :
        (cache_log[i].op = "save" /\ InRange(cache_log[i].doc)) =>
            /\ cache_log[i].returned
            /\ SaveThenGet(i) =>
                  /\ cache_log[i + 1].got # None
                  /\ cache_log[i + 1].got.v.latitude = cache_log[i].doc.latitude
                  /\ cache_log[i + 1].got.v.longitude = cache_log[i].doc.longitude

\* a coordinate that is missing, or that is neither a number nor the text of
\* one
Unusable(x) == x = None \/ FloatOf(x).raised # ""

\* the document has a coordinate that is missing, not numeric or out of range
Rejectable(doc) ==
    LET lat == Get(doc, "latitude")
        lon == Get(doc, "longitude")
    IN  \/ Unusable(lat)
        \/ Unusable(lon)
        \/ FloatOf(lat).value < -90 \/ FloatOf(lat).value > 90
        \/ FloatOf(lon).value < -180 \/ FloatOf(lon).value > 180

\* C22: save_location_cache called with missing, non-numeric or out-of-range
\* coordinates returns False and leaves the cache file as it was, so that a
\* get_location_cache after it returns what one before it returned.
C22_RejectedSaveLeavesCache ==
    \A i \in 1..Len(cache_log) :
        (cache_log[i].op = "save" /\ Rejectable(cache_log[i].doc)) =>
            /\ ~cache_log[i].returned
            /\ cache_log[i].after = cache_log[i].before
            /\ (i > 1 /\ cache_log[i - 1].op = "get" /\ SaveThenGet(i)) =>
                  cache_log[i + 1].got = cache_log[i - 1].got

\* a get that returned a document, a save with a longitude out of range, and
\* a get again
C22_Witness ==
    /\ Len(cache_log) = 3
    /\ cache_log[1].op = "save" /\ cache_log[1].returned
    /\ cache_log[2].op = "save" /\ cache_log[2].doc = LocationOf(Num(12), Num(181))
    /\ cache_log[3].op = "get" /\ cache_log[3].got # None

\* the saves that returned True, in the order they returned
Written == SelectSeq(cache_log, LAMBDA e : e.op = "save" /\ e.returned)

\* C23: with saves and gets of several threads interleaved, every
\* get_location_cache returns None only when there is no cache file, and
\* otherwise a document that a save has written in full; and once no save is
\* in progress, the file holds the whole document of the save that wrote
\* last.
C23_WholeDocumentOfLastWriter ==
    /\ \A i \in 1..Len(cache_log) :
          cache_log[i].op = "get" =>
              IF cache_log[i].got = None THEN cache_log[i].saw = NoFile
              ELSE \E j \in 1..(i - 1) :
                      /\ cache_log[j].op = "save" /\ cache_log[j].returned
                      /\ cache_log[j].doc = cache_log[i].got.v
    /\ ((\A p \in Procs : proc[p] = Idle) /\ Written # <<>>) =>
          cache = LocationText(Written[Len(Written)].doc)

----------------------------------------------------------------------------
(* Properties of the endpoints *)

\* the request body carries no query text: the body is empty, or its query is
\* missing, empty or made of blanks only
QueryMissing ==
    \/ ~Truthy(request_json)
    \/ LET q == Get(request_json.v, "query")
       IN  ~Truthy(q) \/ Strip(q.v) = <<>>

\* a coordinate that is missing
CoordinateMissing(x) == x = Absent \/ x = None

\* the request body carries no location, or one whose coordinates are missing
\* or out of range
LocationMissing ==
    \/ ~Truthy(request_json)
    \/ LET location == Get(request_json.v, "location")
       IN  \/ ~Truthy(location)
           \/ LET lat == Get(location.v, "latitude")
                  lon == Get(location.v, "longitude")
              IN  \/ CoordinateMissing(lat) \/ CoordinateMissing(lon)
                  \/ /\ FloatOf(lat).raised = "" /\ FloatOf(lon).raised = ""
                     /\ \/ FloatOf(lat).value < -90 \/ FloatOf(lat).value > 90
                        \/ FloatOf(lon).value < -180 \/ FloatOf(lon).value > 180

\* the request is answered with an error envelope, whatever the shape and
\* the status of the response that carries it
AnsweredWithError ==
    /\ pc = "responded"
    /\ LET envelope == IF response.json.t = "array" THEN response.json.v[1]
                       ELSE response.json.v
       IN  /\ envelope.success = FALSE
           /\ "error" \in DOMAIN envelope

\* C24: at both search endpoints a request without query text (missing, empty
\* or whitespace-only), or without a location whose coordinates are present
\* and in range, makes no outbound call (reverse geocoder, LLM, directory
\* provider, web-local provider) and, once answered, is answered with an error.
C24_InvalidRequestMakesNoCall ==
    (QueryMissing \/ LocationMissing) =>
        /\ calls = <<>>
        /\ pc \in {"api_search", "api_search_simple"} \/ AnsweredWithError

\* the same for /api/search alone, whose check of the query strips it
C24_AtApiSearch ==
    (endpoint = "/api/search" /\ (QueryMissing \/ LocationMissing)) =>
        /\ calls = <<>>
        /\ pc = "api_search" \/ AnsweredWithError

\* /api/search/simple has rejected a request for its location
C24_Rejected ==
    /\ endpoint = "/api/search/simple"
    /\ LocationMissing
    /\ AnsweredWithError

----------------------------------------------------------------------------
(* Properties of the result of search_places_api *)

\* the steps of search_places_api and "done", its return
SearchPcs ==
    {"create_context_from_location", "generate_fs_params", "search_foursquare",
     "fetch_place_details", "generate_serp_params", "fetch_local_results", "initial",
     "aggressive_location", "no_location", "returned", "add_distance", "fetch_reviews",
     "reviews_request", "resolve_retry", "reviews_retry", "combine", "done"}

\* a provider block: a count and a list of results
ProviderBlock(block) == DOMAIN block = {"count", "results"}

\* C25: search_places_api never raises: it always leaves through a return,
\* and a failure inside it that no fallback absorbs is returned as a tagged
\* failure with success false, an error text that is not empty and data None;
\* a success carries the directory block and the web-local block.
C25_FailureIsTagged ==
    /\ pc \in SearchPcs
    /\ pc # "done" => result = <<>>
    /\ pc = "done" => "success" \in DOMAIN result
    /\ Failed =>
          /\ DOMAIN result = {"success", "error", "data"}
          /\ result.error # <<>> /\ result.error[2] # ""
          /\ result.data = None
    /\ Succeeded =>
          /\ DOMAIN result = {"success", "data"}
          /\ {"foursquare", "google"} \subseteq DOMAIN result.data
          /\ ProviderBlock(result.data.foursquare)
          /\ ProviderBlock(result.data.google)

\* the web-local planner failed after the directory had returned records
C25_Witness ==
    /\ FailedIn({"generate_serp_params"})
    /\ fs_out # <<>> /\ fs_out.count > 0
    /\ result.data = None


\* the error codes of /api/search
ErrorCodes ==
    {"MISSING_DATA", "MISSING_QUERY", "MISSING_LOCATION", "INVALID_COORDINATES", "SEARCH_ERROR",
     "RANKING_ERROR", "SERVER_ERROR"}

\* the status api_search gives to api_error_response with each code
StatusGiven(error_code) ==
    IF error_code \in {"MISSING_DATA", "MISSING_QUERY", "MISSING_LOCATION",
                       "INVALID_COORDINATES"}
    THEN 400 ELSE 500

\* /api/search has answered
Answered == pc = "responded" /\ endpoint = "/api/search"

\* the envelope that api_search built for its answer
EnvelopeBuilt ==
    IF response.json.t = "array" THEN response.json.v[1] ELSE response.json.v

\* C26: every response of /api/search is a single envelope object; a failure
\* has success false, an error message and an error_code of the fixed set and
\* is delivered with the HTTP status given to api_error_response; a success
\* has success true and data.
C26_ResponseIsEnvelope ==
    Answered =>
        /\ response.json.t = "object"
        /\ "success" \in DOMAIN response.json.v
        /\ IF response.json.v.success
           THEN "data" \in DOMAIN response.json.v
           ELSE /\ {"error", "error_code"} \subseteq DOMAIN response.json.v
                /\ response.json.v.error_code \in ErrorCodes
                /\ response.status = StatusGiven(response.json.v.error_code)

\* the envelope itself, whatever carries it: a failure has success false, an
\* error and a code of the fixed set, a success is an object with data
C26_EnvelopeBuilt ==
    Answered =>
        IF EnvelopeBuilt.success
        THEN response.json.t = "object" /\ "data" \in DOMAIN EnvelopeBuilt
        ELSE /\ {"error", "error_code"} \subseteq DOMAIN EnvelopeBuilt
             /\ EnvelopeBuilt.error_code \in ErrorCodes

\* /api/search has answered a failed ranking
C26_Answers ==
    /\ Answered
    /\ ~EnvelopeBuilt.success
    /\ EnvelopeBuilt.error_code = "RANKING_ERROR"


----------------------------------------------------------------------------
(* The distance between two points: one turn of the loop of run_gm for a   *)
(* request at one point and a record at another                             *)

PointDocument(i) ==
    [latitude |-> Num(DistancePoints[i][1]), longitude |-> Num(DistancePoints[i][2])]

InitDistance ==
    /\ pc = "add_distance"
    /\ query = Str(<<"p">>)
    /\ \E i \in 1..Len(DistancePoints) : location_data = PointDocument(i)
    /\ ctx = create_context_from_location(location_data, None)
    /\ \E j \in 1..Len(DistancePoints) :
          results = <<DictSet(PointDocument(j), "title", Str(<<"p">>))>>
    /\ idx = 1
    /\ llm = <<>>
    /\ fs_params = <<>>
    /\ fs_data = <<>>
    /\ ids = <<>>
    /\ details = <<>>
    /\ fs_out = <<>>
    /\ params = <<>>
    /\ base_params = <<>>
    /\ requests = <<>>
    /\ payload = None
    /\ id_param = <<>>
    /\ review_log = <<>>
    /\ gm_out = <<>>
    /\ result = <<>>
    /\ ranking = <<>>
    /\ DirectCall
    /\ calls = <<>>

NextDistance == AddDistance

SpecDistance == InitDistance /\ [][NextDistance]_vars

----------------------------------------------------------------------------
(* Properties of the distance *)

\* the distance the helper gives from the request's point to the record's,
\* from the record's to the request's, and from the request's to itself
DistanceThere ==
    _haversine_km(ctx.latitude.v, ctx.longitude.v,
                  results[1].latitude.v, results[1].longitude.v)

DistanceBack ==
    _haversine_km(results[1].latitude.v, results[1].longitude.v,
                  ctx.latitude.v, ctx.longitude.v)

DistanceHere ==
    _haversine_km(ctx.latitude.v, ctx.longitude.v, ctx.latitude.v, ctx.longitude.v)

\* C27: for all points A and B within the valid range the distance helper
\* gives distance(A, B) = distance(B, A) and distance(A, A) = 0; the record
\* of a place at B, seen from A, gets that distance.
C27_DistanceSymmetric ==
    /\ DistanceThere.raised = "" /\ DistanceBack.raised = ""
    /\ DistanceThere.value = DistanceBack.value
    /\ DistanceHere = Return(Num(0))
    /\ pc # "add_distance" =>
          /\ ~Failed
          /\ results[1].distance_km = DistanceBack.value

\* the same wherever the helper returns a distance
C27_SymmetricWhereDefined ==
    /\ (DistanceThere.raised = "" /\ DistanceBack.raised = "") =>
          DistanceThere.value = DistanceBack.value
    /\ DistanceHere = Return(Num(0))
    /\ pc = "fetch_reviews" => results[1].distance_km = DistanceBack.value

\* a record at another point than the request's has got its distance
C27_Measured ==
    /\ pc = "fetch_reviews"
    /\ results[1].distance_km.v > 0


----------------------------------------------------------------------------
(* fetch_local_results as run_gm calls it: the location of the parameters  *)
(* has gone through the early simplification                                *)

\* the parameters of run_gm after its early simplification, for every
\* location of up to MaxPieces pieces
SimplifiedParams ==
    LET rest == [q |-> Str(<<"p">>), hl |-> HlEn, gl |-> GlIn, num |-> Num(10),
                 engine |-> GoogleLocal, api_key |-> SERP_API_KEY]
    IN  {EarlySimplify(DictSet(rest, "location", Str(s))) : s \in PieceStrings(MaxPieces)}

InitSimplified ==
    /\ pc = "fetch_local_results"
    /\ query = Str(<<"p">>)
    /\ location_data = <<>>
    /\ ctx = <<>>
    /\ llm = <<>>
    /\ fs_params = <<>>
    /\ fs_data = <<>>
    /\ ids = <<>>
    /\ details = <<>>
    /\ fs_out = <<>>
    /\ params \in SimplifiedParams
    /\ base_params = <<>>
    /\ requests = <<>>
    /\ payload = None
    /\ results = <<>>
    /\ idx = 0
    /\ id_param = <<>>
    /\ review_log = <<>>
    /\ gm_out = <<>>
    /\ result = <<>>
    /\ ranking = <<>>
    /\ DirectCall
    /\ calls = <<>>

SpecSimplified == InitSimplified /\ [][NextLadder]_vars

----------------------------------------------------------------------------
(* Properties of the attempts and of the simplified location *)

\* the place of an attempt in the ladder
Rank(tag) ==
    CASE tag = "initial" -> 1
      [] tag = "aggressive_location" -> 2
      [] tag = "no_location" -> 3

\* the attempts made so far are in the order of the ladder, each once
InLadderOrder ==
    \A i, j \in 1..Len(requests) : i < j => Rank(requests[i].tag) < Rank(requests[j].tag)

\* the call was made with a location of one segment: a text without comma
SingleSegment ==
    /\ Truthy(Get(params, "location"))
    /\ Len(Split(params["location"].v, ",")) = 1

\* the no-location attempt, when made, is the last one and has no location
NoLocationIsLast ==
    \A i \in 1..Len(requests) :
        requests[i].tag = "no_location" =>
            i = Len(requests) /\ "location" \notin DOMAIN requests[i].p

\* without a location only the initial attempt is made, and its failure
\* returns the empty payload
OnlyInitialWithoutLocation ==
    ~Truthy(Get(params, "location")) =>
        /\ Len(requests) <= 1
        /\ (Len(requests) = 1 /\ ~GotPayload(_attempt(requests[1].outcome))) =>
              pc = "returned" /\ payload = EmptyDict

\* C28: the attempts of one fetch_local_results call are a subsequence of
\* initial, aggressive, no-location in that order, each made at most once;
\* without a location parameter only the initial attempt is made and its
\* failure returns the empty payload after one request; with a location of a
\* single segment the aggressive attempt is skipped, so that at most two
\* requests are made; the no-location attempt is the last request and
\* carries no location.
C28_AttemptsFollowTheLadder ==
    /\ InLadderOrder
    /\ OnlyInitialWithoutLocation
    /\ NoLocationIsLast
    /\ SingleSegment =>
          /\ Len(requests) <= 2
          /\ \A i \in 1..Len(requests) : requests[i].tag # "aggressive_location"

\* the same without the part on single segments
C28_OrderOfAttempts ==
    /\ InLadderOrder
    /\ OnlyInitialWithoutLocation
    /\ NoLocationIsLast

\* three attempts were made for a location of more than one segment
C28_AllThree ==
    /\ Len(requests) = 3
    /\ ~SingleSegment
    /\ requests[3].tag = "no_location"

\* the text contains the phrase
HasPhrase(t) == RemoveAll(t, MunicipalCorporation) # t

\* C29: for every non-empty location string, the location sent in the
\* initial attempt has at most two comma-separated segments and does not
\* contain the phrase "Municipal Corporation", also when the segments of the
\* input are all empty or hold nothing but the phrase.
C29_InitialLocationIsSimple ==
    (Truthy(Get(params, "location")) /\ requests # <<>>) =>
        /\ "location" \in DOMAIN requests[1].p
        /\ Len(Split(requests[1].p["location"].v, ",")) <= 2
        /\ ~HasPhrase(requests[1].p["location"].v)

\* C30: _simplify_location is idempotent, so that the pre-simplification of
\* fetch_local_results leaves the location that run_gm has simplified as it
\* is: the parameters of the initial attempt are those run_gm passed.
C30_PreSimplificationChangesNothing ==
    pc # "fetch_local_results" =>
        /\ base_params = params
        /\ _simplify_location(base_params["location"]) = base_params["location"]


----------------------------------------------------------------------------
(* normalize_results on its own, for raw items with every combination of   *)
(* identifiers                                                              *)

\* a raw item with the given data_id, place_id and ludocid, each possibly
\* missing, whose title tells which of them it has
IdItem(d, p, l) ==
    [title |-> Str(<<"t">> \o Or(d, Str(<<"-">>)).v \o Or(p, Str(<<"-">>)).v
                      \o (IF Truthy(l) THEN <<"l">> ELSE <<"-">>)),
     address |-> None, data_id |-> d, place_id |-> p, ludocid |-> l]

IdItems ==
    {IdItem(d, p, l) : d \in {None, Str(<<>>), Str(<<"0", "x", "1">>)},
                       p \in {None, Str(<<"C", "h", "1">>)},
                       l \in {None, Str(<<>>), Num(42)}}

\* the payloads with up to MaxRaw of these items
IdPayloads ==
    {Dict([local_results |-> lr]) : lr \in UNION {[1..k -> IdItems] : k \in 0..MaxRaw}}

InitNormalize ==
    /\ pc = "returned"
    /\ query = Str(<<"p">>)
    /\ location_data = RunGmLocation
    /\ ctx = create_context_from_location(location_data, None)
    /\ llm = <<>>
    /\ fs_params = <<>>
    /\ fs_data = <<>>
    /\ ids = <<>>
    /\ details = <<>>
    /\ fs_out = <<>>
    /\ params = <<>>
    /\ base_params = <<>>
    /\ requests = <<>>
    /\ payload \in IdPayloads
    /\ results = <<>>
    /\ idx = 0
    /\ id_param = <<>>
    /\ review_log = <<>>
    /\ gm_out = <<>>
    /\ result = <<>>
    /\ ranking = <<>>
    /\ DirectCall
    /\ calls = <<>>

NextNormalize == NormalizeResults

SpecNormalize == InitNormalize /\ [][NextNormalize]_vars

----------------------------------------------------------------------------
(* Properties of the identifiers of the web-local records *)

\* the item has the identifier: the key is there with a value that is not
\* empty
HasIdentifier(item, k) == Truthy(Get(item, k))

\* C31: normalize_results gives each record the data_id of its raw item when
\* the item has one, otherwise its place_id, otherwise its ludocid, otherwise
\* no identifier, so that a data_id is chosen over a place_id when both are
\* there; and the output has one record per raw item, in the same order.
C31_DataIdPreferred ==
    pc # "returned" =>
        /\ Len(results) = Len(RawLocalItems)
        /\ \A i \in 1..Len(results) :
              LET item == RawLocalItems[i] IN
              /\ results[i].name = item.title
              /\ IF HasIdentifier(item, "data_id")
                 THEN results[i].google_place_id = item.data_id
                 ELSE IF HasIdentifier(item, "place_id")
                 THEN results[i].google_place_id = item.place_id
                 ELSE IF HasIdentifier(item, "ludocid")
                 THEN results[i].google_place_id = item.ludocid
                 ELSE ~Truthy(results[i].google_place_id)

\* two records: one of an item with data_id and place_id, one of an item
\* with a ludocid only
C31_Witness ==
    /\ pc = "add_distance"
    /\ Len(results) = 2
    /\ HasIdentifier(RawLocalItems[1], "data_id") /\ HasIdentifier(RawLocalItems[1], "place_id")
    /\ results[1].google_place_id = RawLocalItems[1].data_id
    /\ ~HasIdentifier(RawLocalItems[2], "data_id") /\ ~HasIdentifier(RawLocalItems[2], "place_id")
    /\ results[2].google_place_id = Num(42)


\* the lookups logged for the record in turn
Lookups == SelectSeq(review_log, LAMBDA e : e.call = "serp_maps")

\* C32: whenever the answer of the name and address lookup holds a data_id,
\* in place_results or in any item of local_results,
\* _resolve_data_id_via_maps returns a data_id and not a place_id; it returns
\* None only when the answer holds no identifier at all.
C32_DataIdWhereverOffered ==
    \A i \in 1..Len(Lookups) :
        LET e == Lookups[i] IN
        /\ "data_id" \in e.offered => e.got = Return(LookupDataId)
        /\ e.got = Return(None) => e.offered = {}

\* the part on None alone
C32_NoneOnlyWithoutIdentifier ==
    \A i \in 1..Len(Lookups) : Lookups[i].got = Return(None) => Lookups[i].offered = {}

\* a lookup whose answer held a data_id returned it
C32_Resolved ==
    \E i \in 1..Len(Lookups) :
        "data_id" \in Lookups[i].offered /\ Lookups[i].got = Return(LookupDataId)


----------------------------------------------------------------------------
(* Properties of the stages of /api/search *)

\* the response is the error envelope with the given code
ErrorResponse(code) ==
    /\ response.json.t = "object"
    /\ "success" \in DOMAIN response.json.v /\ ~response.json.v.success
    /\ Get(response.json.v, "error_code") = code

\* search_places_api has returned to /api/search, with a failure
SearchFailed == endpoint = "/api/search" /\ result # <<>> /\ ~result.success

\* rank_places_api has returned, with a failure
RankingFailed == endpoint = "/api/search" /\ ranking # <<>> /\ ~ranking.success

\* the ranking stage has been entered
RankingStarted == pc \in {"rank_places_api", "ranked"} \/ ranking # <<>>

\* C33: in /api/search the ranking call is made only after search_places_api
\* has returned success; a failed search is answered with SEARCH_ERROR and no
\* ranking call is made; a failed ranking is answered with RANKING_ERROR, and
\* no search data is returned as a success.
C33_SearchThenRanking ==
    /\ RankingStarted => result # <<>> /\ result.success
    /\ SearchFailed => ranking = <<>> /\ pc \in {"done", "responded"}
    /\ (SearchFailed /\ pc = "responded") => ErrorResponse("SEARCH_ERROR")
    /\ (RankingFailed /\ pc = "responded") =>
          /\ ErrorResponse("RANKING_ERROR")
          /\ "data" \notin DOMAIN response.json.v

\* the order of the stages and the envelopes built, whatever carries them
C33_OrderOfStages ==
    /\ RankingStarted => result # <<>> /\ result.success
    /\ SearchFailed => ranking = <<>> /\ pc \in {"done", "responded"}
    /\ (SearchFailed /\ pc = "responded") =>
          ~EnvelopeBuilt.success /\ EnvelopeBuilt.error_code = "SEARCH_ERROR"
    /\ (RankingFailed /\ pc = "responded") =>
          /\ ~EnvelopeBuilt.success /\ EnvelopeBuilt.error_code = "RANKING_ERROR"
          /\ "data" \notin DOMAIN EnvelopeBuilt

\* a failed search has been answered
C33_SearchFailedAnswered == SearchFailed /\ pc = "responded"


----------------------------------------------------------------------------
(* Properties of the calls of run_fs *)

\* the outbound calls made since the context was built
RunFsCalls == SelectSeq(calls, LAMBDA c : c # "nominatim")

\* the calls of a run_fs with n identifiers: the planner, the search, and
\* one detail call per identifier
CallsOfRunFs(n) == <<"llm", "fsq_search">> \o [i \in 1..n |-> "fsq_detail"]

IsPrefix(t, u) == Len(t) <= Len(u) /\ t = SubSeq(u, 1, Len(t))

\* run_fs is running, or has raised
InRunFs ==
    \/ pc \in {"generate_fs_params", "search_foursquare", "fetch_place_details"}
    \/ FailedIn({"generate_fs_params", "search_foursquare", "fetch_place_details",
                 "_haversine_km"})

\* run_fs has returned and run_gm has not made its first call
RunFsReturned == pc = "generate_serp_params"

\* C34: one run_fs call makes one planner LLM call, then one directory search
\* call, then one detail call for each of the at most 5 identifiers returned,
\* in the order of the identifiers and none of them twice; the records it
\* returns are in the order of the identifiers.
C34_OneCallEach ==
    /\ Len(ids) <= 5
    /\ InRunFs =>
          /\ IsPrefix(RunFsCalls, CallsOfRunFs(5))
          /\ Len(RunFsCalls) > 2 => IsPrefix(RunFsCalls, CallsOfRunFs(Len(ids)))
          /\ \A i \in 1..Len(details) : details[i].fsq_place_id = ids[i]
    /\ RunFsReturned =>
          /\ RunFsCalls = CallsOfRunFs(Len(ids))
          /\ Len(fs_out.results) = Len(ids)
          /\ \A i \in 1..Len(ids) : fs_out.results[i].fsq_place_id = ids[i]

\* run_fs has returned the records of five identifiers after seven calls
C34_Witness ==
    /\ RunFsReturned
    /\ Len(ids) = 5
    /\ Len(RunFsCalls) = 7
    /\ fs_out.count = 5


----------------------------------------------------------------------------
(* Properties of the order of the two provider stages *)

\* the calls of the web-local stage
WebLocalCalls == {"serp_local", "serp_maps", "serp_reviews"}

\* the number of LLM calls among the first n calls
RECURSIVE LlmCalls(_)
LlmCalls(n) == IF n = 0 THEN 0 ELSE LlmCalls(n - 1) + (IF calls[n] = "llm" THEN 1 ELSE 0)

\* the web-local stage has made a call: its planner's, the second LLM call,
\* or a request to the web-local provider
WebLocalStarted ==
    \/ LlmCalls(Len(calls)) >= 2
    \/ \E i \in 1..Len(calls) : calls[i] \in WebLocalCalls

\* search_places_api failed in the directory stage
DirectoryFailed ==
    \/ FailedIn({"generate_fs_params", "search_foursquare", "fetch_place_details"})
    \/ FailedIn({"_haversine_km"}) /\ fs_out = <<>>

\* C35: within search_places_api the directory stage is complete before any
\* web-local work starts: no directory call follows a web-local call; and
\* when the directory stage fails, in its planner, its search or a detail
\* call, no web-local planner call, search or review request is made and the
\* result is a failure without web-local records.
C35_DirectoryBeforeWebLocal ==
    /\ WebLocalStarted => fs_out # <<>>
    /\ \A j \in 1..Len(calls) :
          calls[j] \in {"fsq_search", "fsq_detail"} =>
              /\ LlmCalls(j) = 1
              /\ \A i \in 1..j : calls[i] \notin WebLocalCalls
    /\ DirectoryFailed =>
          /\ ~WebLocalStarted
          /\ result.data = None
          /\ gm_out = <<>> /\ results = <<>> /\ requests = <<>> /\ review_log = <<>>

\* the third detail call failed, and nothing was asked of the web-local
\* provider
C35_Witness ==
    /\ FailedIn({"fetch_place_details"})
    /\ Len(details) = 2
    /\ calls = <<"nominatim", "llm", "fsq_search", "fsq_detail", "fsq_detail", "fsq_detail">>


----------------------------------------------------------------------------
(* Properties of the number of outbound calls *)

\* the number of calls to one service
Count(service) == Cardinality({i \in 1..Len(calls) : calls[i] = service})

\* the number of requests of one kind made for the record in turn
CountForRecord(kind) ==
    Cardinality({i \in 1..Len(review_log) : review_log[i].call = kind})

\* the steps of the loop of run_gm over the records, in their order
LoopPcs ==
    <<"add_distance", "fetch_reviews", "reviews_request", "resolve_retry", "reviews_retry">>

\* the steps of a request in their order, those of the loop counted as one
StagePcs ==
    <<"api_search", "create_context_from_location", "generate_fs_params", "search_foursquare",
      "fetch_place_details", "generate_serp_params", "fetch_local_results", "initial",
      "aggressive_location", "no_location", "returned", "loop", "combine", "done",
      "rank_places_api", "ranked", "responded">>

PositionIn(steps, step) == CHOOSE i \in 1..Len(steps) : steps[i] = step

\* how far the request has got: its stage, within the loop the record and the
\* step, and the calls made
Progress ==
    LET looping == \E i \in 1..Len(LoopPcs) : LoopPcs[i] = pc
        stage == IF looping THEN "loop"
                 ELSE IF pc = "api_search_simple" THEN "api_search" ELSE pc
    IN  10000 * PositionIn(StagePcs, stage)
            + (IF looping THEN 10 * idx + PositionIn(LoopPcs, pc) ELSE 0)
            + Len(calls)

\* the bounds of the calls of one request
CallsBounded ==
    /\ Count("nominatim") <= 1
    /\ Count("llm") <= 3
    /\ ranking = <<>> /\ pc \notin {"ranked", "responded"} => Count("llm") <= 2
    /\ Count("fsq_search") <= 1
    /\ Count("fsq_detail") <= 5
    /\ Count("serp_local") <= 3
    /\ Len(results) <= 7
    /\ CountForRecord("serp_maps") <= 2 /\ CountForRecord("serp_reviews") <= 2
    /\ Count("serp_maps") <= 2 * Len(results) /\ Count("serp_reviews") <= 2 * Len(results)
    /\ Len(calls) <= 1 + 2 + 1 + 5 + 3 + 4 * 7 + 1

\* C36: every request ends after a bounded number of outbound calls,
\* whatever the providers and the LLM answer: at most 1 reverse-geocode
\* call, 2 planner calls, 1 directory search, 5 detail calls, 3 web-local
\* search attempts, 2 lookups and 2 review listings for each of at most 7
\* web-local records, and 1 ranking call; every step takes the request
\* further, so that no component goes round without bound.
C36_BoundedCalls == [](CallsBounded) /\ [][Progress' > Progress]_vars

\* a finished search with five detail calls, three search attempts and four
\* calls for its last record
C36_Witness ==
    /\ pc = "done"
    /\ Count("fsq_detail") = 5
    /\ Count("serp_local") = 3
    /\ CountForRecord("serp_maps") = 2 /\ CountForRecord("serp_reviews") = 2

----------------------------------------------------------------------------
(* The cache across saves and clears (src/src/userLocation.py)             *)

\* the last clear logged before the i-th call, 0 if there is none
LastClear(i) ==
    LET clears == {j \in 1..(i - 1) : cache_log[j].op = "clear"} IN
    IF clears = {} THEN 0 ELSE CHOOSE j \in clears : \A k \in clears : k <= j

\* the saves that returned True after the last clear and before the i-th call
SavedSince(i) ==
    {j \in (LastClear(i) + 1)..(i - 1) : cache_log[j].op = "save" /\ cache_log[j].returned}

\* the document of the most recent of them, None if there is none
LastSaved(i) ==
    IF SavedSince(i) = {} THEN None
    ELSE Dict(cache_log[CHOOSE j \in SavedSince(i) : \A k \in SavedSince(i) : k <= j].doc)

\* the value of both coordinates of the document is in range
ValueInRange(doc) ==
    /\ "latitude" \in DOMAIN doc /\ "longitude" \in DOMAIN doc
    /\ FloatOf(doc.latitude).raised = "" /\ FloatOf(doc.longitude).raised = ""
    /\ FloatOf(doc.latitude).value \in -90..90
    /\ FloatOf(doc.longitude).value \in -180..180

\* C37: starting from an empty cache, after any sequence of saves and clears
\* get_location_cache returns exactly the document of the most recent
\* successful save made after the last clear, or None when there is none, and
\* a document it returns has its latitude in -90..90 and its longitude in
\* -180..180.
C37_GetReturnsLastSave ==
    \A i \in 1..Len(cache_log) :
        cache_log[i].op = "get" =>
            /\ cache_log[i].got = LastSaved(i)
            /\ cache_log[i].got # None => ValueInRange(cache_log[i].got.v)

\* the part that holds: what get_location_cache returns is None or the whole
\* document of a save that returned True after the last clear, in range
C37_GotIsSavedSince ==
    \A i \in 1..Len(cache_log) :
        (cache_log[i].op = "get" /\ cache_log[i].got # None) =>
            /\ cache_log[i].got = LastSaved(i)
            /\ ValueInRange(cache_log[i].got.v)

\* a save that returned True, a save that returned False, and a get that
\* returns None
C37_LostBySave ==
    /\ Len(cache_log) = 3
    /\ cache_log[1].op = "save" /\ cache_log[1].returned
    /\ cache_log[2].op = "save" /\ ~cache_log[2].returned
    /\ cache_log[3].op = "get" /\ cache_log[3].got = None

----------------------------------------------------------------------------
(* The context of a validated location (src/src/fsgm.py, api_server.py)    *)

\* the coordinates of the request, as validate_coordinates reads them
SuppliedLatitude == FloatOf(Get(location_data, "latitude")).value

SuppliedLongitude == FloatOf(Get(location_data, "longitude")).value

\* /api/search has validated the location and the context has been built
ValidatedContext ==
    /\ endpoint = "/api/search"
    /\ ctx # <<>>
    /\ validate_coordinates(Get(location_data, "latitude"), Get(location_data, "longitude"))

\* the distance run_gm gives, with this context, to a record at (0, 0), and
\* the distance from the supplied coordinates to that record
DistanceGiven == _add_distance(ctx, Num(0), Num(0))

DistanceFromSupplied == _haversine_km(SuppliedLatitude, SuppliedLongitude, 0, 0)

\* C38: whenever a location passes validate_coordinates, the context built by
\* create_context_from_location has the ll "lat,lon" of the request, never
\* the default coordinates, and the distances are computed against the
\* supplied coordinates, also for coordinates sent as numeric strings.
C38_ContextUsesSupplied ==
    ValidatedContext =>
        /\ ctx.ll = FormatLl(SuppliedLatitude, SuppliedLongitude)
        /\ ctx.ll # DEFAULT_LL
        /\ DistanceGiven = DistanceFromSupplied

\* the part that holds: coordinates sent as numbers are the ones used
C38_NumbersAreUsed ==
    (ValidatedContext /\ IsNumber(Get(location_data, "latitude"))
                      /\ IsNumber(Get(location_data, "longitude"))) =>
        /\ ctx.ll = FormatLl(SuppliedLatitude, SuppliedLongitude)
        /\ ctx.ll # DEFAULT_LL
        /\ DistanceGiven = DistanceFromSupplied

\* a validated latitude sent as a text, the default ll in the context, and
\* None as the distance of a record with coordinates
C38_DefaultUsed ==
    /\ ValidatedContext
    /\ Get(location_data, "latitude").t = "str"
    /\ ctx.ll = DEFAULT_LL
    /\ DistanceGiven = Return(None)

----------------------------------------------------------------------------
(* What the provider runs leave unchanged (src/src/fsgm.py)                *)

\* locations the planner may name that the early simplification of run_gm
\* leaves with the phrase in them: the phrase inside the phrase
PhraseLocations ==
    {Str(<<"a", ",", " ", "a">>),
     Str(<<"a", "M">> \o MunicipalCorporation \o <<" ", "C">>),
     Str(<<"a", "M">> \o MunicipalCorporation \o <<" ", "C", ",", " ", "a">>)}

PhraseOutcomes ==
    {[kind |-> "text",
      content |-> Document([q |-> Str(<<"q">>), location |-> l, num |-> Absent, hl |-> h])] :
        l \in PhraseLocations, h \in {Absent, Str(<<"h", "i">>)}}

\* run_gm after its first statements, for a planner that named one of these
InitPrepared ==
    /\ pc = "fetch_local_results"
    /\ query = Str(<<"p">>)
    /\ location_data = RunGmLocation
    /\ ctx = create_context_from_location(location_data, None)
    /\ llm \in PhraseOutcomes
    /\ fs_params = <<>>
    /\ fs_data = [j \in 1..2 |-> FsPlace(j)]
    /\ ids = CollectIds(fs_data, <<>>)
    /\ details = RunGmDetails
    /\ fs_out = Out(details)
    /\ params = EarlySimplify(generate_serp_params(query, ctx, llm).value)
    /\ base_params = <<>>
    /\ requests = <<>>
    /\ payload = None
    /\ results = <<>>
    /\ idx = 0
    /\ id_param = <<>>
    /\ review_log = <<>>
    /\ gm_out = <<>>
    /\ result = <<>>
    /\ ranking = <<>>
    /\ DirectCall
    /\ calls = <<"nominatim", "llm", "fsq_search", "fsq_detail", "fsq_detail", "llm">>

SpecPrepared == InitPrepared /\ [][NextRunGm]_vars

\* the steps of fetch_local_results and of the loop of run_gm
RunGmPcs ==
    {"fetch_local_results", "initial", "aggressive_location", "no_location", "returned",
     "add_distance", "fetch_reviews", "reviews_request", "resolve_retry", "reviews_retry"}

\* the parameters run_gm prepared: the planner's, with the early
\* simplification of the location
Prepared == EarlySimplify(generate_serp_params(query, ctx, llm).value)

\* the ladder sent a request whose location is not the prepared one
LadderChangedLocation ==
    \E i \in 1..Len(requests) :
        Get(requests[i].p, "location") # Get(Prepared, "location")

\* run_gm's parameters are the prepared ones, and every lookup and review
\* request was made with their api_key and hl
ParamsKept ==
    pc \in RunGmPcs =>
        /\ params = Prepared
        /\ \A i \in 1..Len(review_log) : review_log[i].base = FromParams(Prepared)

\* C39: the provider runs leave their inputs unchanged: no step of run_fs or
\* run_gm changes the request context, fetch_local_results does not change
\* the caller's parameters, and the review requests are made with the
\* api_key, hl and location run_gm prepared, also after the ladder dropped or
\* shortened the location.
C39_InputsUnchanged == [](ParamsKept) /\ [][ctx' = ctx]_vars

\* a review request made after the ladder had sent a location other than
\* the prepared one
C39_Witness ==
    /\ pc \in RunGmPcs
    /\ LadderChangedLocation
    /\ base_params # params
    /\ \E i \in 1..Len(review_log) : review_log[i].call = "serp_reviews"


============================================================================
